---------------------------- MODULE Spec2Model ----------------------------
(***************************************************************************)
(* State-machine model of the emulation core of bretzle/emulation-station. *)
(*                                                                         *)
(* The model follows the Rust sources: the event scheduler                 *)
(* (core/scheduler.rs), the video unit's scanline events                   *)
(* (core/video/mod.rs), the DMA engines (core/hardware/dma.rs), the timers *)
(* (core/hardware/timer.rs), the interrupt controllers                     *)
(* (core/hardware/irq.rs), the IPC registers (core/hardware/ipc.rs), the    *)
(* interpreter of the CPUs (arm/cpu.rs, arm/interpreter) and the frame     *)
(* loop (core/mod.rs).                                                     *)
(*                                                                         *)
(* A Rust panic (an arithmetic overflow, an out-of-bounds index, todo!())  *)
(* aborts the emulator: the model records it in `panicked`, and no         *)
(* operation runs afterwards.                                              *)
(*                                                                         *)
(* The operations of the program are operators on a state record s (the    *)
(* System: every component reaches every other one through it); an action   *)
(* applies one to the current state and writes the result back.            *)
(*                                                                         *)
(* Numbers are kept below 2^31: a 32-bit byte mask is the record of its    *)
(* two halfwords [hi, lo], and the guest programs of the model use values  *)
(* whose bit 31 is clear.                                                  *)
(***************************************************************************)
EXTENDS Integers, Sequences, FiniteSets, TLC

VARIABLES
    \* core/scheduler.rs: struct Scheduler
    events,            \* Vec<Event>: sequence of [time, id, seq]
    capacity,          \* allocated capacity of the `events` Vec
    current_time,      \* u64
    infos,             \* the registered EventInfos: infos[id + 1] is the name of event id
    \* core/video/mod.rs: struct VideoUnit
    vcount,            \* u16
    dispstat,          \* dispstat7 / dispstat9: dispstat[arch]
    \* core/hardware/irq.rs, arm/cpu.rs
    irq,               \* irq7 / irq9: irq[arch] = [ime, ie, irf]
    cpu,               \* arm7 / arm9: cpu[arch] is a Cpu (CpuNew)
    \* core/hardware/dma.rs, core/hardware/timer.rs
    dma,               \* dma7 / dma9: dma[arch][id] is a Channel
    timer,             \* timer7 / timer9: timer[arch][id] is a Channel
    \* core/hardware/ipc.rs: struct Ipc
    ipc,               \* [ipcsync, ipcfifocnt, fifo, ipcfiforecv], each indexed by arch
    \* core/mod.rs
    main_memory,       \* halfword at each byte offset written so far; 0 elsewhere
    math_unit,         \* the divider of the ARM9 (MathUnit)
    cartridge,         \* struct Cartridge
    pages,             \* the PageTable of each memory router: pages[arch] = [read, write]
    vram,              \* struct Vram: [region, vramstat, vramcnt, bank]
    exmemcnt,          \* u16
    pc,                \* position of run_frame: "out", "loop", "arm9", "arm7"
    frame_end,         \* run_frame's local
    cycles,            \* run_frame's local
    \* the process
    overflow_checks,   \* the build: TRUE panics on integer overflow (debug), FALSE wraps
    panicked,          \* TRUE once a panic has aborted the emulator
    program,           \* the MMIO writes the guest code has yet to perform
    \* history (not program state)
    fired,             \* the callbacks invoked so far, in order: sequence of events
    queued,            \* every event add_event has inserted
    cancelled,         \* seq numbers of the events cancel_event has removed
    io,                \* the IPC traffic so far: words sent, writes made, words returned
    last               \* the operation performed by the last step

vars == <<events, capacity, current_time, infos, vcount, dispstat, irq, cpu, dma, timer,
          ipc, main_memory, math_unit, cartridge, pages, vram, exmemcnt, pc, frame_end, cycles,
          overflow_checks, panicked, program,
          fired, queued, cancelled, io, last>>

-----------------------------------------------------------------------------
(* Bounds.                                                                 *)

MaxAdds == 3       \* add_event calls made by the scheduler harness (callbacks add more)
MaxDelay == 2      \* the harness adds with delays 0..MaxDelay
MaxTick == 2       \* the harness ticks by 1..MaxTick
MaxSchedTime == 3  \* the harness stops ticking at this time
MaxTime == 4400    \* run_frame's loop is followed up to this time
MaxGuestTime == 32 \* the guest performs its MMIO writes up to this time
MaxSends == 17     \* words the sending CPU gets into its FIFO under IpcSpec
MaxIrqOps == 4     \* accesses the two CPUs make under IrqSpec and MaskedSpec
MaxModeOps == 3    \* mode switches and register writes under ModeSpec
MaxResetTime == 1121000 \* run_frame is followed up to this time under ResetSpec
MaxAwakeTime == 561000  \* and up to this time once the ARM9 runs again
MaxVramOps == 4    \* VRAMCNT writes, VRAM writes and VRAM reads under VramSpec
MaxPageOps == 2    \* mappings, unmappings and lookups under PageSpec
MaxCartOps == 5
MaxLycWrites == 2       \* DISPSTAT writes under LycSpec    \* accesses to the cartridge registers under CartSpec

-----------------------------------------------------------------------------
(* Helpers.                                                                *)

Max(a, b) == IF a >= b THEN a ELSE b

Min(a, b) == IF a <= b THEN a ELSE b

InsertAt(s, i, x) == SubSeq(s, 1, i - 1) \o <<x>> \o SubSeq(s, i, Len(s))

Bit(x, n) == (x \div 2^n) % 2

\* bits lo..hi of x
Field(x, lo, hi) == (x \div 2^lo) % 2^(hi - lo + 1)

SetBit(x, n, b) == x - Bit(x, n) * 2^n + (IF b THEN 2^n ELSE 0)

\* (old & !mask) | (val & mask) on n bits
RECURSIVE BitMerge(_, _, _, _)
BitMerge(old, val, mask, n) ==
    IF n = 0 THEN 0
    ELSE (IF mask % 2 = 1 THEN val % 2 ELSE old % 2)
         + 2 * BitMerge(old \div 2, val \div 2, mask \div 2, n - 1)

BitAnd(a, b) == BitMerge(0, a, b, 31)

BitOr(a, b) == a + b - BitAnd(a, b)

\* util/bits.rs set, on a u16 and on a u32 (the mask of a u32 is [hi, lo])
set16(old, val, mask) == BitMerge(old, val, mask, 16)

set32(old, val, mask) ==
    BitMerge(old % 65536, val % 65536, mask.lo, 16)
    + 65536 * BitMerge(old \div 65536, val \div 65536, mask.hi, 16)

\* the MASK of a 32-bit access, and of the 16-bit access to the low halfword
MASK_WORD == [hi |-> 65535, lo |-> 65535]

MASK_LOW == [hi |-> 0, lo |-> 65535]

Arch == {"ARMv4", "ARMv5"}

panic(s) == [s EXCEPT !.panicked = TRUE]

\* Vec::insert reserves room for one more element: the capacity doubles, and
\* is never less than 4 for an element of this size.
MinNonZeroCap == 4

GrowCapacity(cap, len) == IF len < cap THEN cap ELSE Max(Max(2 * cap, len + 1), MinNonZeroCap)

-----------------------------------------------------------------------------
(* core/scheduler.rs                                                       *)

\* calc_event_index: the binary search of add_event. Indices are usize. The
\* result is the 0-based insertion index, or -1 when `upper = mid - 1` is
\* computed with mid = 0: a debug build panics on the subtraction, a release
\* build wraps upper to usize::MAX and panics on the index events[mid] of
\* the next iteration.
RECURSIVE calc_loop(_, _, _, _)
calc_loop(evs, time, lower, upper) ==
    IF lower <= upper
    THEN LET mid == (lower + upper) \div 2
         IN  IF time > evs[mid + 1].time
             THEN calc_loop(evs, time, mid + 1, upper)
             ELSE IF mid = 0
                  THEN -1
                  ELSE calc_loop(evs, time, lower, mid - 1)
    ELSE lower

calc_event_index(evs, time) ==
    IF Len(evs) = 0 THEN 0 ELSE calc_loop(evs, time, 0, Len(evs) - 1)

\* add_event on the state record s. While run() iterates over the Vec
\* (s.iter_live), an insertion that reallocates leaves run()'s iterator on
\* the freed buffer: s.stale keeps what that buffer held.
add_event(s, delay, id) ==
    LET time == s.current_time + delay
        index == calc_event_index(s.events, time)
        event == [time |-> time, id |-> id, seq |-> Cardinality(s.queued) + 1]
        moves == Len(s.events) = s.capacity /\ s.uaf # "inplace"
    IN  IF s.panicked THEN s
        ELSE IF index < 0 THEN panic(s)
        ELSE [s EXCEPT !.events = InsertAt(@, index + 1, event),
                       !.capacity = GrowCapacity(@, Len(s.events)),
                       !.queued = @ \cup {event},
                       !.stale = IF moves /\ s.iter_live THEN s.events ELSE @,
                       !.iter_live = IF moves THEN FALSE ELSE @]

\* cancel_event: retain every event of another id.
cancel_event(s, id) ==
    IF s.panicked THEN s
    ELSE [s EXCEPT !.events = SelectSeq(@, LAMBDA e : e.id # id),
                   !.cancelled = @ \cup {e.seq : e \in {s.events[i] : i \in
                                   {j \in 1..Len(s.events) : s.events[j].id = id}}}]

tick(s, cycles_) == [s EXCEPT !.current_time = @ + cycles_]

\* register_event: the new EventInfo gets the next id.
register_event(s, name) == [s EXCEPT !.infos = Append(@, name)]

\* the id of the EventInfo registered under a name
InfoId(s, name) ==
    (CHOOSE i \in 1..Len(s.infos) :
        s.infos[i] = name /\ \A j \in (i + 1)..Len(s.infos) : s.infos[j] # name) - 1

-----------------------------------------------------------------------------
(* core/hardware/irq.rs                                                    *)

IrqSource ==
    [VBlank |-> 0, HBlank |-> 1, VCounter |-> 2, Timer0 |-> 3, Timer1 |-> 4,
     Timer2 |-> 5, Timer3 |-> 6, RTC |-> 7, DMA0 |-> 8, DMA1 |-> 9, DMA2 |-> 10,
     DMA3 |-> 11, Input |-> 12, IPCSync |-> 16, IPCSendEmpty |-> 17,
     IPCReceiveNonEmpty |-> 18, CartridgeTransfer |-> 19, GXFIFO |-> 21, SPI |-> 23]

\* IrqSource::timer(id), which timer.rs calls: the source of timer channel id
IrqSource_timer(id) == IrqSource.Timer0 + id

\* Irq::update: the CPU's irq line
update(s, arch) ==
    [s EXCEPT !.cpu[arch].irq =
        s.irq[arch].ime /\ BitAnd(s.irq[arch].ie, s.irq[arch].irf) # 0]

\* raise that leaves the CPU's irq line as it was
raise_without_update(s, arch, source) ==
    LET wakes == Bit(s.irq[arch].ie, source) = 1 /\ (s.irq[arch].ime \/ arch = "ARMv4")
    IN  IF s.panicked THEN s
        ELSE [s EXCEPT !.irq[arch].irf = SetBit(@, source, TRUE),
                       !.cpu[arch].halted = IF wakes THEN FALSE ELSE @]

raise(s, arch, source) ==
    LET wakes == Bit(s.irq[arch].ie, source) = 1 /\ (s.irq[arch].ime \/ arch = "ARMv4")
    IN  IF s.panicked THEN s
        ELSE update([s EXCEPT !.irq[arch].irf = SetBit(@, source, TRUE),
                              !.cpu[arch].halted = IF wakes THEN FALSE ELSE @],
                    arch)

write_ime(s, arch, val, mask) ==
    update([s EXCEPT !.irq[arch].ime = (val % 2 = 1)], arch)

write_ie(s, arch, val, mask) ==
    update([s EXCEPT !.irq[arch].ie = set32(@, val, mask)], arch)

\* IF written like IE
write_irf_as_store(s, arch, val, mask) ==
    update([s EXCEPT !.irq[arch].irf = set32(@, val, mask)], arch)

\* irf &= !(val & mask)
write_irf(s, arch, val, mask) ==
    update([s EXCEPT !.irq[arch].irf =
               @ - BitAnd(@ % 65536, BitAnd(val % 65536, mask.lo))
                 - 65536 * BitAnd(@ \div 65536, BitAnd(val \div 65536, mask.hi))],
           arch)

-----------------------------------------------------------------------------
(* Main memory, as the memory routers of both CPUs map it                  *)
(* (core/arm9/memory.rs, core/arm7/memory.rs): 0x02000000..0x03000000,     *)
(* offset mask 0x3fffff. The guest programs of the model keep their DMA    *)
(* addresses in main memory; the other regions are not modelled and read   *)
(* as 0.                                                                   *)

InMainMemory(addr) == addr >= 33554432 /\ addr < 50331648

MemHalf(m, offset) == IF offset \in DOMAIN m THEN m[offset] ELSE 0

MemSet(m, offset, val) ==
    [x \in DOMAIN m \cup {offset} |-> IF x = offset THEN val ELSE m[x]]

read_half(s, arch, addr) ==
    LET a == addr - (addr % 2)
    IN  IF InMainMemory(a) THEN MemHalf(s.main_memory, a % 4194304) ELSE 0

read_word(s, arch, addr) ==
    LET a == addr - (addr % 4)
    IN  IF InMainMemory(a)
        THEN MemHalf(s.main_memory, a % 4194304)
             + 65536 * MemHalf(s.main_memory, (a % 4194304) + 2)
        ELSE 0

write_half(s, arch, addr, val) ==
    LET a == addr - (addr % 2)
    IN  IF InMainMemory(a)
        THEN [s EXCEPT !.main_memory = MemSet(@, a % 4194304, val % 65536)]
        ELSE s

write_word(s, arch, addr, val) ==
    LET a == addr - (addr % 4)
    IN  IF InMainMemory(a)
        THEN [s EXCEPT !.main_memory =
                 MemSet(MemSet(@, a % 4194304, val % 65536),
                        (a % 4194304) + 2, val \div 65536)]
        ELSE s

-----------------------------------------------------------------------------
(* core/hardware/dma.rs                                                    *)

ADJUST_LUT == <<<<2, -2, 0, 2>>, <<4, -4, 0, 4>>>>

DmaTiming ==
    [Immediate |-> 0, VBlank |-> 1, HBlank |-> 2, StartOfDisplay |-> 3,
     MainMemoryDisplay |-> 4, Slot1 |-> 5, Slot2 |-> 6, GXFIFO |-> 7]

\* the fields of a channel's Control(u16)
DmaControl(control) ==
    [destination_control |-> Field(control, 5, 6),
     source_control |-> Field(control, 7, 8),
     repeat |-> Bit(control, 9) = 1,
     transfer_words |-> Bit(control, 10) = 1,
     timing |-> Field(control, 11, 13),
     irq |-> Bit(control, 14) = 1,
     enable |-> Bit(control, 15) = 1]

DmaChannelDefault ==
    [length |-> 0, source |-> 0, internal_source |-> 0, destination |-> 0,
     internal_destination |-> 0, internal_length |-> 0, control |-> 0]

\* the names Dma::reset registers transfer_events[0..3] under
DmaEventNames ==
    [ARMv4 |-> <<"DMA Transfer 7.0", "DMA Transfer 7.1", "DMA Transfer 7.2", "DMA Transfer 7.3">>,
     ARMv5 |-> <<"DMA Transfer 9.0", "DMA Transfer 9.1", "DMA Transfer 9.2", "DMA Transfer 9.3">>]

RECURSIVE register_all(_, _, _)
register_all(s, names, i) ==
    IF i > Len(names) THEN s ELSE register_all(register_event(s, names[i]), names, i + 1)

dma_reset(s, arch) ==
    register_all([s EXCEPT !.dma[arch] = [i \in 0..3 |-> DmaChannelDefault]],
                 DmaEventNames[arch], 1)

\* the channel timing trigger compares with: an ARMv4 channel's is timing() >> 1
channel_timing(arch, control) ==
    IF arch = "ARMv4" THEN DmaControl(control).timing \div 2 ELSE DmaControl(control).timing

RECURSIVE trigger_loop(_, _, _, _)
trigger_loop(s, arch, timing, i) ==
    IF i > 3 \/ s.panicked THEN s
    ELSE LET control == s.dma[arch][i].control
         IN  trigger_loop(
                 IF DmaControl(control).enable /\ channel_timing(arch, control) = timing
                 THEN add_event(s, 1, InfoId(s, DmaEventNames[arch][i + 1]))
                 ELSE s,
                 arch, timing, i + 1)

trigger(s, arch, timing) == trigger_loop(s, arch, timing, 0)

\* `address += adjust as u32`: a negative adjust is a large u32, and the sum
\* overflows: the debug build panics, the release build wraps to
\* address + adjust.
adjust_address(s, address, adjust) ==
    IF adjust < 0 /\ address >= -adjust /\ s.overflow_checks
    THEN [panics |-> TRUE, address |-> address]
    ELSE [panics |-> FALSE, address |-> address + adjust]

\* the copy loop of transfer: n units are left to copy
RECURSIVE transfer_loop(_, _, _, _, _, _)
transfer_loop(s, arch, id, n, source_adjust, dest_adjust) ==
    IF n = 0 \/ s.panicked THEN s
    ELSE LET channel == s.dma[arch][id]
             words == DmaControl(channel.control).transfer_words
             s1 == IF words
                   THEN write_word(s, arch, channel.internal_destination,
                                   read_word(s, arch, channel.internal_source))
                   ELSE write_half(s, arch, channel.internal_destination,
                                   read_half(s, arch, channel.internal_source))
             src == adjust_address(s, channel.internal_source, source_adjust)
             dst == adjust_address(s, channel.internal_destination, dest_adjust)
         IN  IF src.panics \/ dst.panics THEN panic(s1)
             ELSE transfer_loop(
                      [s1 EXCEPT !.dma[arch][id].internal_source = src.address,
                                 !.dma[arch][id].internal_destination = dst.address],
                      arch, id, n - 1, source_adjust, dest_adjust)

transfer(s, arch, id) ==
    LET channel == s.dma[arch][id]
        control == DmaControl(channel.control)
        w == IF control.transfer_words THEN 2 ELSE 1
        source_adjust == ADJUST_LUT[w][control.source_control + 1]
        dest_adjust == ADJUST_LUT[w][control.destination_control + 1]
        s1 == transfer_loop(s, arch, id, channel.internal_length, source_adjust, dest_adjust)
    IN  IF s1.panicked THEN s1
        ELSE IF control.irq THEN panic(s1)                                    \* todo!()
        ELSE IF control.repeat /\ control.timing # DmaTiming.Immediate
             THEN panic(s1)                                                   \* todo!()
        ELSE [s1 EXCEPT !.dma[arch][id].control = SetBit(@, 15, FALSE)]

dma_write_source(s, arch, id, val, mask) ==
    [s EXCEPT !.dma[arch][id].source = set32(@, val, mask)]

dma_write_destination(s, arch, id, val, mask) ==
    [s EXCEPT !.dma[arch][id].destination = set32(@, val, mask)]

dma_write_length(s, arch, id, val, mask) ==
    [s EXCEPT !.dma[arch][id].length = set32(@, val, mask)]

\* write_control(id, val >> 16, MASK >> 16): val and mask are the upper
\* halfwords of the access to DMAxCNT
dma_write_control(s, arch, id, val, mask) ==
    LET old == DmaControl(s.dma[arch][id].control)
        length == (s.dma[arch][id].length % 65536)
                  + 65536 * BitAnd(BitAnd(val, 31), mask)
        control == set16(s.dma[arch][id].control, val % 65536, mask % 65536)
        s1 == [s EXCEPT !.dma[arch][id].length = length,
                        !.dma[arch][id].control = control]
        s2 == [s1 EXCEPT !.dma[arch][id].internal_source = s1.dma[arch][id].source,
                         !.dma[arch][id].internal_destination = s1.dma[arch][id].destination,
                         !.dma[arch][id].internal_length =
                             IF length = 0
                             THEN (IF arch = "ARMv5" THEN 2097152 ELSE 65536)
                             ELSE length]
    IN  IF DmaControl(control).enable /\ DmaControl(control).timing = DmaTiming.GXFIFO
        THEN panic(s1)                                                        \* todo!()
        ELSE IF old.enable \/ ~DmaControl(control).enable THEN s1
        ELSE IF DmaControl(control).timing = DmaTiming.Immediate
             THEN add_event(s2, 1, InfoId(s2, DmaEventNames[arch][id + 1]))
        ELSE s2

-----------------------------------------------------------------------------
(* core/hardware/timer.rs                                                  *)

SHIFTS == <<0, 6, 8, 10>>

\* the fields of a channel's Control(u16)
TimerControl(control) ==
    [prescaler |-> Field(control, 0, 1),
     count_up |-> Bit(control, 2) = 1,
     irq |-> Bit(control, 6) = 1,
     start |-> Bit(control, 7) = 1]

TimerChannelDefault ==
    [control |-> 0, counter |-> 0, reload_value |-> 0, activation_timestamp |-> 0,
     active |-> FALSE, shift |-> 0]

\* the names Timers::reset registers overflow_events[0..3] under
TimerEventNames ==
    [ARMv4 |-> <<"Timer Overflow 7.0", "Timer Overflow 7.1", "Timer Overflow 7.2", "Timer Overflow 7.3">>,
     ARMv5 |-> <<"Timer Overflow 9.0", "Timer Overflow 9.1", "Timer Overflow 9.2", "Timer Overflow 9.3">>]

\* Timers::reset registers the events and leaves the channels as they are
timer_reset(s, arch) == register_all(s, TimerEventNames[arch], 1)

\* update_counter returns the counter as a u16
update_counter(s, arch, id) ==
    LET channel == s.timer[arch][id]
        delta == (s.current_time - channel.activation_timestamp) \div 2^channel.shift
    IN  IF ~channel.active THEN channel.counter % 65536
        ELSE (channel.counter + delta) % 65536

\* activate_channel. The counter is at most 0x10000 here: the reload values
\* of the model are written through the 16-bit lane.
activate_channel(s, arch, id) ==
    LET delay == (65536 - s.timer[arch][id].counter) * 2^s.timer[arch][id].shift
    IN  IF s.panicked THEN s
        ELSE add_event([s EXCEPT !.timer[arch][id].active = TRUE,
                                 !.timer[arch][id].activation_timestamp = s.current_time],
                       delay, InfoId(s, TimerEventNames[arch][id + 1]))

\* deactivate_channel; and deactivate_channel without the cancel_event
deactivate_channel_keeps_event(s, arch, id) ==
    [s EXCEPT !.timer[arch][id].counter = update_counter(s, arch, id),
              !.timer[arch][id].active = FALSE]
deactivate_channel(s, arch, id) ==
    cancel_event([s EXCEPT !.timer[arch][id].counter = update_counter(s, arch, id),
                           !.timer[arch][id].active = FALSE],
                 InfoId(s, TimerEventNames[arch][id + 1]))

timer_write_length(s, arch, id, val, mask) ==
    [s EXCEPT !.timer[arch][id].reload_value = set32(@, val, mask)]

\* write_control(id, (val >> 16) as u16, MASK >> 16)
timer_write_control(s, arch, id, val, mask) ==
    LET s1 == IF s.timer[arch][id].active THEN deactivate_channel(s, arch, id) ELSE s
        old_control == TimerControl(s1.timer[arch][id].control)
        control == set16(s1.timer[arch][id].control, val, BitAnd(mask, 199))
        s2 == [s1 EXCEPT !.timer[arch][id].control = control,
                         !.timer[arch][id].shift = SHIFTS[TimerControl(control).prescaler + 1]]
        s3 == IF ~old_control.start
              THEN [s2 EXCEPT !.timer[arch][id].counter = s2.timer[arch][id].reload_value]
              ELSE s2
    IN  IF ~TimerControl(control).start THEN s2
        ELSE IF id = 0 \/ ~TimerControl(control).count_up THEN activate_channel(s3, arch, id)
        ELSE s3

\* overflow without the chain to the next channel
overflow_no_cascade(s, arch, id) ==
    LET s1 == [s EXCEPT !.timer[arch][id].counter = s.timer[arch][id].reload_value]
        control == TimerControl(s.timer[arch][id].control)
        s2 == IF control.irq THEN raise(s1, arch, IrqSource_timer(id)) ELSE s1
    IN  IF s.panicked THEN s
        ELSE IF id = 0 \/ ~control.count_up THEN activate_channel(s2, arch, id) ELSE s2

RECURSIVE overflow(_, _, _)
overflow(s, arch, id) ==
    LET s1 == [s EXCEPT !.timer[arch][id].counter = s.timer[arch][id].reload_value]
        control == TimerControl(s.timer[arch][id].control)
        s2 == IF control.irq THEN raise(s1, arch, IrqSource_timer(id)) ELSE s1
        s3 == IF id = 0 \/ ~control.count_up THEN activate_channel(s2, arch, id) ELSE s2
        s4 == [s3 EXCEPT !.timer[arch][id + 1].counter = @ + 1]
    IN  IF s.panicked THEN s
        ELSE IF s3.panicked THEN s3
        ELSE IF id < 3 /\ TimerControl(s3.timer[arch][id + 1].control).count_up
                       /\ TimerControl(s3.timer[arch][id + 1].control).start
             THEN (IF s4.timer[arch][id + 1].counter = 65536
                   THEN overflow(s4, arch, id + 1)
                   ELSE s4)
        ELSE s3

-----------------------------------------------------------------------------
(* util/ringbuf.rs and core/hardware/ipc.rs                                *)

\* RingBuffer<u32, 16>
FifoSize == 16

RingBufferDefault ==
    [head |-> 0, tail |-> 0, items |-> 0, buffer |-> [i \in 1..FifoSize |-> 0]]

is_empty(rb) == rb.items = 0

is_full(rb) == rb.items = FifoSize

push(rb, data) ==
    IF is_full(rb) THEN rb
    ELSE [rb EXCEPT !.buffer[rb.tail + 1] = data,
                    !.tail = (rb.tail + 1) % FifoSize,
                    !.items = @ + 1]

\* pop that takes an item off the count and leaves the head where it was
pop_keeps_head(rb) == IF is_empty(rb) THEN rb ELSE [rb EXCEPT !.items = @ - 1]

\* pop, for the buffer it leaves (its result is front)
pop(rb) ==
    IF is_empty(rb) THEN rb
    ELSE [rb EXCEPT !.head = (rb.head + 1) % FifoSize, !.items = @ - 1]

front(rb) == rb.buffer[rb.head + 1]

clear(rb) == [rb EXCEPT !.head = 0, !.tail = 0, !.items = 0]

\* !arch
Not(arch) == IF arch = "ARMv4" THEN "ARMv5" ELSE "ARMv4"

\* the fields of IpcSync(u32) and of IpcFifoCnt(u16)
IpcSync(r) ==
    [input |-> Field(r, 0, 3), output |-> Field(r, 8, 11),
     send_irq |-> Bit(r, 13) = 1, enable_irq |-> Bit(r, 14) = 1]

IpcFifoCnt(r) ==
    [send_fifo_empty |-> Bit(r, 0) = 1, send_fifo_full |-> Bit(r, 1) = 1,
     send_fifo_empty_irq |-> Bit(r, 2) = 1, send_fifo_clear |-> Bit(r, 3) = 1,
     receive_fifo_empty |-> Bit(r, 8) = 1, receive_fifo_full |-> Bit(r, 9) = 1,
     receive_fifo_empty_irq |-> Bit(r, 10) = 1, error |-> Bit(r, 14) = 1,
     enable_fifos |-> Bit(r, 15) = 1]

\* Ipc::new
IpcNew ==
    [ipcsync |-> [a \in Arch |-> 0],
     ipcfifocnt |-> [a \in Arch |-> 257],
     fifo |-> [a \in Arch |-> RingBufferDefault],
     ipcfiforecv |-> [a \in Arch |-> 0]]

\* read_ipcfiforecv that returns 0 from an empty FIFO
read_ipcfiforecv_zero_on_empty(s, arch) ==
    IF is_empty(s.ipc.fifo[Not(arch)])
    THEN [s EXCEPT !.ipc.ipcfifocnt[arch] = SetBit(@, 14, TRUE), !.ipc.ipcfiforecv[arch] = 0]
    ELSE LET s1 == [s EXCEPT !.ipc.ipcfiforecv[arch] = front(s.ipc.fifo[Not(arch)])]
         IN  IF IpcFifoCnt(s.ipc.ipcfifocnt[arch]).enable_fifos
             THEN [s1 EXCEPT !.ipc.fifo[Not(arch)] = pop(@)]
             ELSE s1

\* read_ipcfiforecv, for the state it leaves: its result is the latch
\* ipcfiforecv[arch] of that state
read_ipcfiforecv(s, arch) ==
    LET tx == arch
        rx == Not(arch)
        s1 == [s EXCEPT !.ipc.ipcfiforecv[tx] = front(s.ipc.fifo[rx])]
        s2 == [s1 EXCEPT !.ipc.fifo[rx] = pop(@)]
        s3 == [s2 EXCEPT !.ipc.ipcfifocnt[rx] = SetBit(@, 0, TRUE),
                         !.ipc.ipcfifocnt[tx] = SetBit(@, 8, TRUE)]
        s4 == [s2 EXCEPT !.ipc.ipcfifocnt[rx] = SetBit(@, 1, FALSE),
                         !.ipc.ipcfifocnt[tx] = SetBit(@, 9, FALSE)]
    IN  IF is_empty(s.ipc.fifo[rx])
        THEN [s EXCEPT !.ipc.ipcfifocnt[tx] = SetBit(@, 14, TRUE)]
        ELSE IF ~IpcFifoCnt(s1.ipc.ipcfifocnt[tx]).enable_fifos THEN s1
        ELSE IF is_empty(s2.ipc.fifo[rx])
             THEN (IF IpcFifoCnt(s3.ipc.ipcfifocnt[rx]).send_fifo_empty_irq
                   THEN raise(s3, Not(arch), IrqSource.IPCSendEmpty)
                   ELSE s3)
        ELSE IF s2.ipc.fifo[rx].items = 15 THEN s4
        ELSE s2

\* write_ipcsync that mirrors the output into the writer's own input
write_ipcsync_own_input(s, arch, val, mask) ==
    LET s1 == [s EXCEPT !.ipc.ipcsync[arch] = set16(@, val % 65536, BitAnd(mask, 28416))]
    IN  [s1 EXCEPT !.ipc.ipcsync[arch] = @ - Field(@, 0, 3) + IpcSync(@).output]

\* write_ipcsync: val and mask are those of the access; the mask is cut to
\* 0x6f00, so only its low halfword counts
write_ipcsync(s, arch, val, mask) ==
    LET tx == arch
        rx == Not(arch)
        s1 == [s EXCEPT !.ipc.ipcsync[tx] = set16(@, val % 65536, BitAnd(mask, 28416))]
        output == IpcSync(s1.ipc.ipcsync[tx]).output
        s2 == [s1 EXCEPT !.ipc.ipcsync[rx] = @ - Field(@, 0, 3) + output]
    IN  IF IpcSync(s2.ipc.ipcsync[tx]).send_irq /\ IpcSync(s2.ipc.ipcsync[rx]).enable_irq
        THEN raise(s2, Not(arch), IrqSource.IPCSync)
        ELSE s2

write_ipcfifocnt(s, arch, val, mask) ==
    LET tx == arch
        rx == Not(arch)
        send_fifo_empty_irq_old == IpcFifoCnt(s.ipc.ipcfifocnt[tx]).send_fifo_empty_irq
        receive_fifo_empty_irq_old == IpcFifoCnt(s.ipc.ipcfifocnt[tx]).receive_fifo_empty_irq
        s1 == [s EXCEPT !.ipc.ipcfifocnt[tx] = set16(@, val, BitAnd(mask, 33796))]
        cleared == [s1 EXCEPT !.ipc.fifo[tx] = clear(@),
                              !.ipc.ipcfifocnt[tx] = SetBit(SetBit(@, 0, TRUE), 1, FALSE),
                              !.ipc.ipcfifocnt[rx] = SetBit(SetBit(@, 8, TRUE), 9, FALSE)]
        s2 == IF Bit(val, 3) = 0 THEN s1
              ELSE IF IpcFifoCnt(cleared.ipc.ipcfifocnt[tx]).send_fifo_empty_irq
                   THEN raise(cleared, arch, IrqSource.IPCSendEmpty)
                   ELSE cleared
        s3 == IF /\ ~send_fifo_empty_irq_old
                 /\ IpcFifoCnt(s2.ipc.ipcfifocnt[tx]).send_fifo_empty_irq
                 /\ IpcFifoCnt(s2.ipc.ipcfifocnt[tx]).send_fifo_empty
              THEN raise(s2, arch, IrqSource.IPCSendEmpty)
              ELSE s2
        s4 == IF /\ ~receive_fifo_empty_irq_old
                 /\ IpcFifoCnt(s3.ipc.ipcfifocnt[tx]).receive_fifo_empty_irq
                 /\ IpcFifoCnt(s3.ipc.ipcfifocnt[tx]).receive_fifo_empty
              THEN raise(s3, arch, IrqSource.IPCReceiveNonEmpty)
              ELSE s3
    IN  IF Bit(val, 14) = 1
        THEN [s4 EXCEPT !.ipc.ipcfifocnt[tx] = SetBit(@, 14, FALSE)]
        ELSE s4

\* write_ipcfifosend that never sets the full flags
write_ipcfifosend_without_full(s, arch, val) ==
    LET s1 == [s EXCEPT !.ipc.fifo[arch] = push(@, val)]
    IN  IF ~IpcFifoCnt(s.ipc.ipcfifocnt[arch]).enable_fifos THEN s
        ELSE IF s.ipc.fifo[arch].items >= 16
             THEN [s EXCEPT !.ipc.ipcfifocnt[arch] = SetBit(@, 14, TRUE)]
        ELSE IF s1.ipc.fifo[arch].items = 1
             THEN [s1 EXCEPT !.ipc.ipcfifocnt[arch] = SetBit(@, 0, FALSE),
                             !.ipc.ipcfifocnt[Not(arch)] = SetBit(@, 8, FALSE)]
        ELSE s1

write_ipcfifosend(s, arch, val) ==
    LET tx == arch
        rx == Not(arch)
        s1 == [s EXCEPT !.ipc.fifo[tx] = push(@, val)]
        s2 == [s1 EXCEPT !.ipc.ipcfifocnt[tx] = SetBit(@, 0, FALSE),
                         !.ipc.ipcfifocnt[rx] = SetBit(@, 8, FALSE)]
        s3 == [s1 EXCEPT !.ipc.ipcfifocnt[tx] = SetBit(@, 1, TRUE),
                         !.ipc.ipcfifocnt[rx] = SetBit(@, 9, TRUE)]
    IN  IF ~IpcFifoCnt(s.ipc.ipcfifocnt[tx]).enable_fifos THEN s
        ELSE IF s.ipc.fifo[tx].items >= 16
             THEN [s EXCEPT !.ipc.ipcfifocnt[tx] = SetBit(@, 14, TRUE)]
        ELSE IF s1.ipc.fifo[tx].items = 1
             THEN (IF IpcFifoCnt(s2.ipc.ipcfifocnt[rx]).receive_fifo_empty_irq
                   THEN raise(s2, Not(arch), IrqSource.IPCReceiveNonEmpty)
                   ELSE s2)
        ELSE IF s1.ipc.fifo[tx].items = 16 THEN s3
        ELSE s1

-----------------------------------------------------------------------------
(* core/video/vram.rs                                                      *)
(*                                                                         *)
(* A VramRegion is the number of its pages and, for the pages that have    *)
(* host pointers, the list of them (banks[index]); a host pointer is the   *)
(* bank it points into and its byte offset there. A bank buffer is the     *)
(* halfword at each byte offset written so far, 0 elsewhere.               *)

PAGE_SIZE == 4096

\* struct VramCnt
VramCnt(x) == [mst |-> Field(x, 0, 2), offset |-> Field(x, 3, 4), enable |-> Bit(x, 7) = 1]

\* the sizes Vram::reset allocates
RegionSize ==
    [lcdc |-> 671744, bga |-> 524288, obja |-> 262144, bgb |-> 131072, objb |-> 131072,
     arm7_vram |-> 262144, texture_data |-> 524288, texture_palette |-> 131072,
     bga_extended_palette |-> 32768, bgb_extended_palette |-> 32768,
     obja_extended_palette |-> 8192, objb_extended_palette |-> 8192]

Regions == DOMAIN RegionSize

\* Vram::new: banks A..I are 0..8
VramNew ==
    [region |-> [r \in Regions |-> [pages |-> 0, banks |-> <<>>]],
     vramstat |-> 0,
     vramcnt |-> [k \in 0..8 |-> 0],
     bank |-> [k \in 0..8 |-> <<>>]]

\* VramRegion::allocate
allocate(size) == [pages |-> size \div PAGE_SIZE, banks |-> <<>>]

\* the host pointers of a page
PageBanks(region, index) ==
    IF index \in DOMAIN region.banks THEN region.banks[index] ELSE <<>>

\* Vram::reset
vram_reset(s) == [s EXCEPT !.vram.region = [r \in Regions |-> allocate(RegionSize[r])]]

\* Vram::reset_regions: the extended palettes of the objects are left out
reset_regions(s) ==
    [s EXCEPT !.vram.region =
        [r \in Regions |->
            IF r \in {"obja_extended_palette", "objb_extended_palette"} THEN @[r]
            ELSE [@[r] EXCEPT !.banks = <<>>]]]

\* VramRegion::map: self.pages[index] panics beyond the allocated pages
region_map(s, r, bank, offset, length) ==
    LET region == s.vram.region[r]
        first == offset \div PAGE_SIZE
        indices == first..(first + (length \div PAGE_SIZE) - 1)
    IN  IF s.panicked THEN s
        ELSE IF \E index \in indices : index >= region.pages THEN panic(s)
        ELSE [s EXCEPT !.vram.region[r].banks =
                 [index \in DOMAIN region.banks \cup indices |->
                     IF index \in indices
                     THEN Append(PageBanks(region, index),
                                 [bank |-> bank, offset |-> (index - first) * PAGE_SIZE])
                     ELSE region.banks[index]]]

Target(region, offset, length) == [region |-> region, offset |-> offset, length |-> length]

\* the arms of write_vramcnt's matches: where bank k goes for an mst and an
\* offset; "unreachable" for the mst values no arm takes
BankTarget(k, mst, offset) ==
    LET small == (offset % 2) * 16384 + BitAnd(offset, 2) * 65536
    IN  CASE k \in {0, 1} /\ mst = 0 -> Target("lcdc", k * 131072, 131072)
          [] k \in {0, 1} /\ mst = 1 -> Target("bga", offset * 131072, 131072)
          [] k \in {0, 1} /\ mst = 2 -> Target("obja", (offset % 2) * 131072, 131072)
          [] k \in {0, 1} /\ mst = 3 -> Target("texture_data", offset * 131072, 131072)
          [] k \in {2, 3} /\ mst = 0 -> Target("lcdc", k * 131072, 131072)
          [] k \in {2, 3} /\ mst = 1 -> Target("bga", offset * 131072, 131072)
          [] k \in {2, 3} /\ mst = 2 -> Target("arm7_vram", (offset % 2) * 131072, 131072)
          [] k \in {2, 3} /\ mst = 3 -> Target("texture_data", offset * 131072, 131072)
          [] k = 2 /\ mst = 4 -> Target("bgb", 0, 131072)
          [] k = 3 /\ mst = 4 -> Target("objb", 0, 131072)
          [] k = 4 /\ mst = 0 -> Target("lcdc", 524288, 65536)
          [] k = 4 /\ mst = 1 -> Target("bga", 0, 65536)
          [] k = 4 /\ mst = 2 -> Target("obja", 0, 65536)
          [] k = 4 /\ mst = 3 -> Target("texture_palette", 0, 65536)
          [] k = 4 /\ mst = 4 -> Target("bga_extended_palette", 0, 32768)
          [] k \in {5, 6} /\ mst = 0 -> Target("lcdc", 589824 + (k - 5) * 16384, 16384)
          [] k \in {5, 6} /\ mst = 1 -> Target("bga", small, 16384)
          [] k \in {5, 6} /\ mst = 2 -> Target("obja", small, 16384)
          [] k \in {5, 6} /\ mst = 3 ->
                Target("texture_palette", ((offset % 2) + BitAnd(offset, 2) * 4) * 16384, 16384)
          [] k \in {5, 6} /\ mst = 4 ->
                Target("bga_extended_palette", (offset % 2) * 16384, 16384)
          [] k \in {5, 6} /\ mst = 5 -> Target("obja_extended_palette", 0, 8192)
          [] k = 7 /\ mst = 0 -> Target("lcdc", 622592, 32768)
          [] k = 7 /\ mst = 1 -> Target("bgb", 0, 32768)
          [] k = 7 /\ mst = 2 -> Target("bgb_extended_palette", 0, 32768)
          [] k = 8 /\ mst = 0 -> Target("lcdc", 655360, 16384)
          [] k = 8 /\ mst = 1 -> Target("bgb", 32768, 16384)
          [] k = 8 /\ mst = 2 -> Target("objb", 0, 16384)
          [] k = 8 /\ mst = 3 -> Target("objb_extended_palette", 0, 8192)
          [] OTHER -> Target("unreachable", 0, 0)

\* write_vramcnt from `if self.vramcnt[k].enable()` on, for the banks k..8
RECURSIVE map_banks(_, _)
map_banks(s, k) ==
    LET cnt == VramCnt(s.vram.vramcnt[k])
        t == BankTarget(k, cnt.mst, cnt.offset)
    IN  IF k > 8 \/ s.panicked THEN s
        ELSE IF ~cnt.enable THEN map_banks(s, k + 1)
        ELSE IF t.region = "unreachable" THEN panic(s)
        ELSE map_banks(region_map(s, t.region, k, t.offset, t.length), k + 1)

VramCntMasks == <<155, 155, 159, 159, 135, 159, 159, 131, 131>>

write_vramcnt(s, bank, val) ==
    LET masked == BitAnd(val, VramCntMasks[bank + 1])
        s1 == reset_regions([s EXCEPT !.vram.vramcnt[bank] = masked])
        shared(k) == IF VramCnt(s1.vram.vramcnt[k]).enable /\ VramCnt(s1.vram.vramcnt[k]).mst = 2
                     THEN 1 ELSE 0
    IN  IF s.vram.vramcnt[bank] = masked THEN s
        ELSE [map_banks(s1, 0) EXCEPT !.vram.vramstat = shared(2) + 2 * shared(3)]

\* VramRegion::get_page: the index of the page of an address
get_page(addr) == ((addr % 16777216) % 1048576) \div PAGE_SIZE

\* the u32 at a byte offset of a bank buffer
BankWord(s, k, offset) ==
    MemHalf(s.vram.bank[k], offset) + 65536 * MemHalf(s.vram.bank[k], offset + 2)

\* VramPage::read::<u32>
RECURSIVE page_read(_, _, _)
page_read(s, banks, addr) ==
    IF banks = <<>> THEN 0
    ELSE BitOr(BankWord(s, Head(banks).bank, Head(banks).offset + (addr % PAGE_SIZE)),
               page_read(s, Tail(banks), addr))

\* VramPage::write::<u16>
RECURSIVE page_write(_, _, _, _)
page_write(s, banks, addr, val) ==
    IF banks = <<>> THEN s
    ELSE page_write([s EXCEPT !.vram.bank[Head(banks).bank] =
                        MemSet(@, Head(banks).offset + (addr % PAGE_SIZE), val)],
                    Tail(banks), addr, val)

\* VramRegion::read: the data read, or the panic of self.pages[index]
region_read(s, r, addr) ==
    IF get_page(addr) >= s.vram.region[r].pages THEN [panic |-> TRUE, data |-> 0]
    ELSE [panic |-> FALSE,
          data |-> page_read(s, PageBanks(s.vram.region[r], get_page(addr)), addr)]

\* VramRegion::write
region_write(s, r, addr, val) ==
    IF get_page(addr) >= s.vram.region[r].pages THEN panic(s)
    ELSE page_write(s, PageBanks(s.vram.region[r], get_page(addr)), addr, val)

\* the region Vram::read and Vram::write route an address to
RoutedRegion(addr) ==
    LET region == (addr \div 1048576) % 16
    IN  CASE region \in {0, 1} -> "bga"
          [] region \in {2, 3} -> "bgb"
          [] region \in {4, 5} -> "obja"
          [] region \in {6, 7} -> "objb"
          [] OTHER -> "lcdc"

\* Vram::read, and the ARM7's read of arm7_vram
vram_read(s, arch, addr) ==
    region_read(s, IF arch = "ARMv4" THEN "arm7_vram" ELSE RoutedRegion(addr), addr)

\* Vram::write
vram_write(s, addr, val) == region_write(s, RoutedRegion(addr), addr, val)

-----------------------------------------------------------------------------
(* core/hardware/math_unit.rs                                              *)
(*                                                                         *)
(* A u64 is the sequence of its four halfwords, the lowest first; as an    *)
(* i64 it is negative when bit 15 of its fourth halfword is set. The       *)
(* square root registers have no part in the state of the model.           *)

\* the u64 of a number below 2^31
U64(n) == <<n % 65536, n \div 65536, 0, 0>>

\* -1i64 as u64
AllOnes == <<65535, 65535, 65535, 65535>>

\* i64::MIN
MinI64 == <<0, 0, 0, 32768>>

IsNegative(x) == x[4] >= 32768

Invert(x) == <<65535 - x[1], 65535 - x[2], 65535 - x[3], 65535 - x[4]>>

\* wrapping addition
Add64(a, b) ==
    LET s1 == a[1] + b[1]
        s2 == a[2] + b[2] + s1 \div 65536
        s3 == a[3] + b[3] + s2 \div 65536
        s4 == a[4] + b[4] + s3 \div 65536
    IN  <<s1 % 65536, s2 % 65536, s3 % 65536, s4 % 65536>>

\* wrapping negation
Neg64(x) == Add64(Invert(x), U64(1))

\* the magnitude of an i64, as a u64 (2^63 for i64::MIN)
Magnitude(x) == IF IsNegative(x) THEN Neg64(x) ELSE x

\* a >= b, unsigned
Geq64(a, b) ==
    IF a[4] # b[4] THEN a[4] > b[4]
    ELSE IF a[3] # b[3] THEN a[3] > b[3]
    ELSE IF a[2] # b[2] THEN a[2] > b[2]
    ELSE a[1] >= b[1]

\* (x << 1) | b
ShiftIn(x, b) ==
    <<(2 * x[1] + b) % 65536, (2 * x[2] + x[1] \div 32768) % 65536,
      (2 * x[3] + x[2] \div 32768) % 65536, (2 * x[4] + x[3] \div 32768) % 65536>>

\* one step of the unsigned division: bit i of the numerator is shifted into
\* the remainder, and the denominator is taken off where it fits
DivStep(n, d, i, acc) ==
    LET shifted == ShiftIn(acc.r, Bit(n[i \div 16 + 1], i % 16))
    IN  IF Geq64(shifted, d)
        THEN [q |-> ShiftIn(acc.q, 1), r |-> Add64(shifted, Neg64(d))]
        ELSE [q |-> ShiftIn(acc.q, 0), r |-> shifted]

\* unsigned division: the steps of the bits hi down to lo, the upper half of
\* the bits before the lower half
RECURSIVE DivSteps(_, _, _, _, _)
DivSteps(n, d, hi, lo, acc) ==
    IF hi = lo THEN DivStep(n, d, hi, acc)
    ELSE LET mid == (hi + lo + 1) \div 2
         IN  CHOOSE res \in {DivSteps(n, d, mid - 1, lo, upper) :
                             upper \in {DivSteps(n, d, hi, mid, acc)}} : TRUE

\* numer / denom and numer % denom on i64: the quotient is rounded towards
\* zero, the remainder has the sign of the numerator (denom # 0, and not
\* i64::MIN / -1)
SignedDiv(numer, denom) ==
    LET u == DivSteps(Magnitude(numer), Magnitude(denom), 63, 0, [q |-> U64(0), r |-> U64(0)])
    IN  [q |-> IF IsNegative(numer) # IsNegative(denom) THEN Neg64(u.q) ELSE u.q,
         r |-> IF IsNegative(numer) THEN Neg64(u.r) ELSE u.r]

\* x as u32 as i32 as i64
SignExtend32(x) ==
    LET sign == IF x[2] >= 32768 THEN 65535 ELSE 0
    IN  <<x[1], x[2], sign, sign>>

\* (-numer.signum()) as u64
NegSignum_negated(numer) == Neg64(numer)
NegSignum(numer) ==
    IF numer = U64(0) THEN U64(0)
    ELSE IF IsNegative(numer) THEN U64(1) ELSE AllOnes

\* num ^= 0xFFFF_FFFF_0000_0000
special_invert(num) == <<num[1], num[2], 65535 - num[3], 65535 - num[4]>>

\* (old & !mask) | (val & mask) on a u64
set64(old, val, mask) ==
    <<set16(old[1], val[1], mask[1]), set16(old[2], val[2], mask[2]),
      set16(old[3], val[3], mask[3]), set16(old[4], val[4], mask[4])>>

\* MathUnit::default
MathUnitDefault ==
    [divcnt |-> 0, div_numer |-> U64(0), div_denom |-> U64(0),
     divrem_result |-> U64(0), div_result |-> U64(0)]

\* start_division: the mode 3 of DIVCNT is unreachable!()
start_division(s) ==
    LET m == s.math_unit
        divcnt == SetBit(m.divcnt, 14, m.div_denom = U64(0))
        mode == divcnt % 4
        numer == IF mode = 0 THEN SignExtend32(m.div_numer) ELSE m.div_numer
        denom == IF mode = 2 THEN m.div_denom ELSE SignExtend32(m.div_denom)
        inverted(x) == IF mode = 0 THEN special_invert(x) ELSE x
        d == SignedDiv(numer, denom)
    IN  IF mode = 3 THEN panic([s EXCEPT !.math_unit.divcnt = divcnt])
        ELSE IF numer = MinI64 /\ denom = AllOnes
        THEN [s EXCEPT !.math_unit.divcnt = divcnt,
                       !.math_unit.div_result = inverted(numer),
                       !.math_unit.divrem_result = U64(0)]
        ELSE IF denom = U64(0)
        THEN [s EXCEPT !.math_unit.divcnt = divcnt,
                       !.math_unit.div_result =
                           inverted(IF numer = U64(0) THEN AllOnes ELSE NegSignum(numer)),
                       !.math_unit.divrem_result = numer]
        ELSE [s EXCEPT !.math_unit.divcnt = divcnt,
                       !.math_unit.div_result = d.q,
                       !.math_unit.divrem_result = d.r]

write_divcnt(s, val, mask) ==
    start_division([s EXCEPT !.math_unit.divcnt = set16(@, val, mask)])

write_div_numer(s, val, mask) ==
    start_division([s EXCEPT !.math_unit.div_numer = set64(@, val, mask)])

write_div_denom(s, val, mask) ==
    start_division([s EXCEPT !.math_unit.div_denom = set64(@, val, mask)])

-----------------------------------------------------------------------------
(* core/hardware/cartridge/mod.rs                                          *)
(*                                                                         *)
(* ROMCTRL is the record of its two halfwords [hi, lo]; the command buffer *)
(* and the command are their eight bytes, byte i being bits 8i..8i+7. The  *)
(* ROM file of the model holds, at every offset, the offset itself.        *)

AuxSpiCnt(x) == [transfer_ready_irq |-> Bit(x, 14) = 1, slot_enable |-> Bit(x, 15) = 1]

RomCtrl(x) ==
    [word_ready |-> Bit(x.hi, 7) = 1,
     block_size |-> Field(x.hi, 8, 10),
     block_start |-> Bit(x.hi, 15) = 1]

\* Cartridge::new
CartridgeNew ==
    [auxspicnt |-> 0,
     romctrl |-> [hi |-> 0, lo |-> 0],
     command_buffer |-> [i \in 0..7 |-> 0],
     command |-> [i \in 0..7 |-> 0],
     transfer_count |-> 0,
     transfer_size |-> 0,
     rom_position |-> 0,
     key1_encryption |-> FALSE,
     command_type |-> "Dummy",
     cartridge_inserted |-> FALSE]

\* Cartridge::load
load(s) == [s EXCEPT !.cartridge.cartridge_inserted = TRUE]

\* read::<u32>(&self.file, offset)
FileWord(offset) == offset

write_auxspicnt(s, val, mask) == [s EXCEPT !.cartridge.auxspicnt = set16(@, val, mask)]

\* val and mask are the eight bytes of the u64s
write_command_buffer(s, val, mask) ==
    [s EXCEPT !.cartridge.command_buffer = [i \in 0..7 |-> BitMerge(@[i], val[i], mask[i], 8)]]

process_decrypted_command(s) ==
    LET command == s.cartridge.command
        rest(bytes) == \A i \in bytes : command[i] = 0
    IN  IF ~s.cartridge.cartridge_inserted THEN s
        ELSE IF command[7] = 183 /\ rest(0..2)
        THEN [s EXCEPT !.cartridge.rom_position =
                           command[3] + 256 * command[4] + 65536 * command[5]
                           + 16777216 * command[6],
                       !.cartridge.command_type = "ReadData"]
        ELSE IF command[7] = 184 /\ rest(0..6)
        THEN [s EXCEPT !.cartridge.command_type = "GetThirdId"]
        ELSE IF command[7] = 159 /\ rest(0..6)
        THEN [s EXCEPT !.cartridge.command_type = "Dummy"]
        ELSE IF rest(0..7)
        THEN [s EXCEPT !.cartridge.command_type = "ReadHeader"]
        ELSE IF command[7] = 144 /\ rest(0..6)
        THEN [s EXCEPT !.cartridge.command_type = "GetFirstId"]
        ELSE IF command[7] = 60
        THEN [s EXCEPT !.cartridge.key1_encryption = TRUE,
                       !.cartridge.command_type = "None"]
        ELSE s

\* the DMA unit that `bit::<11>(self.system.exmemcnt)` picks
Slot1Dma(s) == IF Bit(s.exmemcnt, 11) = 1 THEN "ARMv4" ELSE "ARMv5"

start_transfer(s) ==
    LET block_size == RomCtrl(s.cartridge.romctrl).block_size
        s1 == [s EXCEPT !.cartridge.transfer_size =
                            CASE block_size = 0 -> 0
                              [] block_size = 7 -> 4
                              [] OTHER -> 256 * 2^block_size,
                        !.cartridge.command =
                            [i \in 0..7 |-> s.cartridge.command_buffer[7 - i]]]
        s2 == IF s1.cartridge.key1_encryption THEN s1 ELSE process_decrypted_command(s1)
    IN  IF s2.cartridge.transfer_size = 0 THEN panic(s2)                     \* todo!()
        ELSE trigger([s2 EXCEPT !.cartridge.transfer_count = 0,
                                !.cartridge.romctrl.hi = SetBit(@, 7, TRUE)],
                     Slot1Dma(s2), DmaTiming.Slot1)

\* val and mask are the records of their halfwords
write_romctrl(s, val, mask) ==
    LET s1 == [s EXCEPT !.cartridge.romctrl =
                            [hi |-> set16(@.hi, val.hi, mask.hi),
                             lo |-> set16(@.lo, val.lo, mask.lo)]]
    IN  IF ~RomCtrl(s.cartridge.romctrl).block_start
           /\ RomCtrl(s1.cartridge.romctrl).block_start
        THEN start_transfer(s1)
        ELSE s1

read_data(s) ==
    LET c == s.cartridge
        moved == IF c.rom_position < 32768
                 THEN [s EXCEPT !.cartridge.rom_position = 32768 + (@ % 512)]
                 ELSE s
        read == CASE ~c.cartridge_inserted \/ c.command_type = "Dummy" ->
                        [panic |-> FALSE, s |-> s, data |-> -1]
                  [] c.command_type = "ReadData" ->
                        [panic |-> FALSE, s |-> moved,
                         data |-> FileWord(moved.cartridge.rom_position + c.transfer_count)]
                  [] c.command_type \in {"GetFirstId", "GetSecondId", "GetThirdId"} ->
                        [panic |-> FALSE, s |-> s, data |-> 8130]
                  [] OTHER -> [panic |-> TRUE, s |-> s, data |-> -1]
        s1 == [read.s EXCEPT !.cartridge.transfer_count = @ + 4]
        done == [s1 EXCEPT !.cartridge.romctrl.hi = SetBit(SetBit(@, 7, FALSE), 15, FALSE)]
    IN  IF ~RomCtrl(c.romctrl).word_ready THEN [s |-> s, data |-> -1]
        ELSE IF read.panic THEN [s |-> panic(s), data |-> -1]
        ELSE [s |-> IF s1.cartridge.transfer_count # s1.cartridge.transfer_size
                    THEN trigger(s1, Slot1Dma(s1), DmaTiming.Slot1)
                    ELSE IF AuxSpiCnt(c.auxspicnt).transfer_ready_irq
                    THEN raise(raise(done, "ARMv4", IrqSource.CartridgeTransfer),
                               "ARMv5", IrqSource.CartridgeTransfer)
                    ELSE done,
              data |-> read.data]

-----------------------------------------------------------------------------
(* util/page_table.rs, as the memory routers instantiate it                *)
(* (PageTable<14>).                                                        *)
(*                                                                         *)
(* A host pointer is the buffer it points into and its byte offset there;  *)
(* a Table is its non-null entries, keyed by <<l1 index, l2 index>>. An    *)
(* address is the integer of its two's complement reading.                 *)

N == 14

TABLE_PAGE_SIZE == 2^N

L1_BITS == (32 - N) \div 2

L1_SHIFT == 32 - L1_BITS

L2_BITS == (32 - N) \div 2

L2_SHIFT == 32 - L1_BITS - L2_BITS

NullPtr == [buffer |-> "null", offset |-> 0]

\* ptr.add(count)
PtrAdd(ptr, count) == [ptr EXCEPT !.offset = @ + count]

\* the masks 2^k - 1
LowMasks == {2^k - 1 : k \in 0..30}

\* addr & mask on 32 bits, for a mask below 2^31
AddrAnd(addr, mask) ==
    IF mask \in LowMasks THEN addr % (mask + 1)
    ELSE BitAnd(addr % 65536, mask % 65536)
         + 65536 * BitAnd((addr \div 65536) % 65536, mask \div 65536)

get_l1_index(addr) == (addr \div 2^L1_SHIFT) % 2^L1_BITS

get_l2_index(addr) == (addr \div 2^L2_SHIFT) % 2^L2_BITS

\* `(base..end).step_by(PAGE_SIZE)`: how many addresses, and which
StepCount(base, end) ==
    IF base >= end THEN 0 ELSE ((end - base - 1) \div TABLE_PAGE_SIZE) + 1

PageSteps(base, end) == {base + k * TABLE_PAGE_SIZE : k \in 0..(StepCount(base, end) - 1)}

TableEntry(table, addr) ==
    IF <<get_l1_index(addr), get_l2_index(addr)>> \in DOMAIN table
    THEN table[<<get_l1_index(addr), get_l2_index(addr)>>]
    ELSE NullPtr

\* the entries of a Table in the order of their addresses
EntryNumber(key) == key[1] * 2^L2_BITS + key[2]

\* how many pages behind the page of base the entry of a key is
PagesBehind(base, key) ==
    (EntryNumber(key) - EntryNumber(<<get_l1_index(base), get_l2_index(base)>>))
        % 2^(L1_BITS + L2_BITS)

\* the entries that `for addr in (base..end).step_by(PAGE_SIZE)` visits
Visited(base, end) ==
    {<<get_l1_index(addr), get_l2_index(addr)>> : addr \in PageSteps(base, end)}

\* Table::map: every page of the range gets ptr.add(addr & mask); below it,
\* the variant that gives every page the pointer itself
table_map_same_pointer(table, base, end, ptr, mask) ==
    [key \in DOMAIN table \cup Visited(base, end) |->
        IF PagesBehind(base, key) < StepCount(base, end) THEN ptr ELSE table[key]]

table_map(table, base, end, ptr, mask) ==
    [key \in DOMAIN table \cup Visited(base, end) |->
        IF PagesBehind(base, key) < StepCount(base, end)
        THEN PtrAdd(ptr, AddrAnd(base + PagesBehind(base, key) * TABLE_PAGE_SIZE, mask))
        ELSE table[key]]

\* Table::unmap
table_unmap(table, base, end) ==
    [key \in {k \in DOMAIN table : PagesBehind(base, k) >= StepCount(base, end)} |->
        table[key]]

\* Table::get_pointer
get_pointer(table, addr) ==
    IF TableEntry(table, addr) = NullPtr THEN NullPtr
    ELSE PtrAdd(TableEntry(table, addr), addr % TABLE_PAGE_SIZE)

\* PageTable::new
PageTableNew == [read |-> <<>>, write |-> <<>>]

\* the page tables of Arm7Memory::new and Arm9Memory::new
PagesNew == [a \in Arch |-> PageTableNew]

\* PageTable::map
map(s, arch, base, end, ptr, mask, attributes) ==
    [s EXCEPT !.pages[arch].read =
                  IF attributes \in {"Read", "ReadWrite"}
                  THEN table_map(@, base, end, ptr, mask) ELSE @,
              !.pages[arch].write =
                  IF attributes \in {"Write", "ReadWrite"}
                  THEN table_map(@, base, end, ptr, mask) ELSE @]

\* PageTable::unmap
unmap(s, arch, base, end, attributes) ==
    [s EXCEPT !.pages[arch].read =
                  IF attributes \in {"Read", "ReadWrite"}
                  THEN table_unmap(@, base, end) ELSE @,
              !.pages[arch].write =
                  IF attributes \in {"Write", "ReadWrite"}
                  THEN table_unmap(@, base, end) ELSE @]

read_pointer(s, arch, addr) == get_pointer(s.pages[arch].read, addr)

write_pointer(s, arch, addr) == get_pointer(s.pages[arch].write, addr)

-----------------------------------------------------------------------------
(* core/video/mod.rs                                                       *)

\* the fields of DispStat(u32)
DispStat(d) ==
    [vblank |-> Bit(d, 0) = 1, hblank |-> Bit(d, 1) = 1, lyc |-> Bit(d, 2) = 1,
     vblank_irq |-> Bit(d, 3) = 1, hblank_irq |-> Bit(d, 4) = 1, lyc_irq |-> Bit(d, 5) = 1,
     lyc_setting_msb |-> Bit(d, 7), lyc_setting |-> Field(d, 8, 15)]

\* render_scanline_start. Rendering the line writes the framebuffers only
\* (the guest leaves DISPCNT at its reset value: display mode 0).
render_scanline_start(s) ==
    LET s1 == IF s.vcount < 192 THEN trigger(s, "ARMv5", DmaTiming.HBlank) ELSE s
        s2 == [s1 EXCEPT !.dispstat = [a \in Arch |-> SetBit(s1.dispstat[a], 1, TRUE)]]
    IN  IF s.panicked THEN s
        ELSE IF s1.panicked THEN s1
        ELSE IF DispStat(s2.dispstat["ARMv4"]).hblank_irq THEN panic(s2)     \* todo!()
        ELSE IF DispStat(s2.dispstat["ARMv5"]).hblank_irq THEN panic(s2)     \* todo!()
        ELSE IF s2.vcount > 1 /\ s2.vcount < 194
             THEN trigger(s2, "ARMv5", DmaTiming.StartOfDisplay)
        ELSE s2

\* the line the lyc bit compares vcount with:
\* lyc_setting() | lyc_setting_msb() << 1
lyc_line(d) == BitOr(DispStat(d).lyc_setting, DispStat(d).lyc_setting_msb * 2)

\* the lyc part of render_scanline_end for one CPU
lyc_compare(s, arch) ==
    IF s.panicked THEN s
    ELSE IF lyc_line(s.dispstat[arch]) = s.vcount
    THEN LET s1 == [s EXCEPT !.dispstat[arch] = SetBit(@, 2, TRUE)]
         IN  IF DispStat(s1.dispstat[arch]).lyc_irq
             THEN raise(s1, arch, IrqSource.VCounter)
             ELSE s1
    ELSE [s EXCEPT !.dispstat[arch] = SetBit(@, 2, FALSE)]

\* render_scanline_end. `vcount += 1` is a u16 addition.
render_scanline_end(s) ==
    LET next == IF s.vcount = 65535 THEN 0 ELSE s.vcount + 1
        s1 == [s EXCEPT !.vcount = IF next = 263 THEN 0 ELSE next,
                        !.dispstat = [a \in Arch |-> SetBit(s.dispstat[a], 1, FALSE)]]
        s2 == [s1 EXCEPT !.dispstat = [a \in Arch |-> SetBit(s1.dispstat[a], 0, TRUE)]]
        s3 == IF DispStat(s2.dispstat["ARMv4"]).vblank_irq
              THEN raise(s2, "ARMv4", IrqSource.VBlank) ELSE s2
        s4 == IF DispStat(s3.dispstat["ARMv5"]).vblank_irq
              THEN raise(s3, "ARMv5", IrqSource.VBlank) ELSE s3
        s5 == IF s1.vcount = 192 THEN trigger(s4, "ARMv5", DmaTiming.VBlank)
              ELSE IF s1.vcount = 262
              THEN [s1 EXCEPT !.dispstat = [a \in Arch |-> SetBit(s1.dispstat[a], 0, FALSE)]]
              ELSE s1
    IN  IF s.panicked THEN s
        ELSE IF s.vcount = 65535 /\ s.overflow_checks THEN panic(s)
        ELSE lyc_compare(lyc_compare(s5, "ARMv4"), "ARMv5")

write_dispstat(s, arch, val, mask) ==
    [s EXCEPT !.dispstat[arch] =
        set32(@, val, [hi |-> 0, lo |-> BitAnd(mask.lo, 65471)])]

write_vcount(s, val, mask) == [s EXCEPT !.vcount = set16(@, val, mask)]

\* the callbacks VideoUnit::reset registers, after a scanline start
\* callback that queues the scanline end a cycle late
scanline_start_late(s) ==
    add_event(render_scanline_start(s), 525, InfoId(s, "Scanline End"))

scanline_start_event(s) ==
    add_event(render_scanline_start(s), 524, InfoId(s, "Scanline End"))

\* a scanline end callback that leaves out the next scanline start
scanline_end_no_rearm(s) == render_scanline_end(s)

scanline_end_event(s) ==
    add_event(render_scanline_end(s), 1606, InfoId(s, "Scanline Start"))

video_reset(s) ==
    LET s1 == register_event(register_event(
                  vram_reset([s EXCEPT !.vcount = 0, !.dispstat = [a \in Arch |-> 0]]),
                  "Scanline Start"), "Scanline End")
    IN  add_event(s1, 1606, InfoId(s1, "Scanline Start"))

-----------------------------------------------------------------------------
(* core/mod.rs, core/arm9/coprocessor.rs                                   *)

\* write_haltcnt
write_haltcnt(s, val) ==
    IF Field(BitAnd(val, 192), 6, 7) = 2
    THEN [s EXCEPT !.cpu["ARMv4"].halted = TRUE]
    ELSE panic(s)                                                             \* todo!()

\* the CP15 write of register 0x070004 (wait for interrupt)
cp15_wait_for_interrupt(s) == [s EXCEPT !.cpu["ARMv5"].halted = TRUE]

-----------------------------------------------------------------------------
(* The callbacks behind the registered events, and Scheduler::run.         *)

\* The callbacks of the scheduler harness: "nop" adds nothing, "add_now"
\* schedules a "nop" event at the current time, "rearm" schedules itself one
\* cycle ahead (the shape of the scanline, timer and DMA callbacks).
HarnessCallbacks == <<"nop", "add_now", "rearm">>

HarnessNames == {HarnessCallbacks[i] : i \in 1..Len(HarnessCallbacks)}

harness_callback(s, name) ==
    IF name = "add_now" /\ \E i \in 1..Len(s.infos) : s.infos[i] = "nop"
    THEN add_event(s, 0, InfoId(s, "nop"))
    ELSE IF name = "rearm"
    THEN add_event(s, 1, InfoId(s, "rearm"))
    ELSE s

\* the closures Dma::reset and Timers::reset register
channel_callback(s, name) ==
    IF \E a \in Arch, i \in 0..3 : DmaEventNames[a][i + 1] = name
    THEN LET p == CHOOSE p \in Arch \X (0..3) : DmaEventNames[p[1]][p[2] + 1] = name
         IN  transfer(s, p[1], p[2])
    ELSE IF \E a \in Arch, i \in 0..3 : TimerEventNames[a][i + 1] = name
    THEN LET p == CHOOSE p \in Arch \X (0..3) : TimerEventNames[p[1]][p[2] + 1] = name
         IN  overflow(s, p[1], p[2])
    ELSE s

\* (event.info.callback)(&mut self.system)
callback(s, id) ==
    LET name == s.infos[id + 1]
    IN  IF name \in HarnessNames THEN harness_callback(s, name)
        ELSE IF name = "Scanline Start" THEN scanline_start_event(s)
        ELSE IF name = "Scanline End" THEN scanline_end_event(s)
        ELSE channel_callback(s, name)

\* run: `for event in &self.events` reads the buffer through an iterator whose
\* start and end were fixed before the first callback ran (n elements). A
\* callback that inserts shifts the elements behind the insertion point in
\* place, or, when the Vec reallocates, leaves the iterator on freed memory
\* (undefined behaviour): s.uaf is what the build makes of that: "inplace"
\* (the allocation grew in place), "stale" (the freed buffer still reads as
\* it was) or "crash".
RECURSIVE run_loop(_, _, _)
run_loop(s, p, n) ==
    IF s.panicked \/ p > n THEN s
    ELSE IF ~s.iter_live /\ s.uaf = "crash" THEN panic(s)
    ELSE LET buffer == IF s.iter_live THEN s.events ELSE s.stale
             event == buffer[p]
         IN  IF event.time <= s.current_time
             THEN run_loop(callback([s EXCEPT !.fired = Append(@, event)], event.id), p + 1, n)
             ELSE run_loop(s, p + 1, n)

run(s0, uaf) ==
    LET s1 == run_loop([s0 EXCEPT !.iter_live = TRUE, !.stale = <<>>, !.uaf = uaf],
                       1, Len(s0.events))
    IN  IF s1.panicked THEN s1
        ELSE [s1 EXCEPT !.events = SelectSeq(@, LAMBDA e : e.time > s1.current_time)]

UafOutcomes == {"inplace", "stale", "crash"}

-----------------------------------------------------------------------------
(* arm/state.rs, arm/cpu.rs, arm/interpreter/arm.rs and thumb.rs: the       *)
(* interpreter of one CPU.                                                  *)
(*                                                                         *)
(* A u32 of the register file is the integer of its two's complement       *)
(* reading, so that 0xffff0000 is -65536. The `+` and `-` of the code       *)
(* panic in a build with overflow checks when the unsigned result leaves    *)
(* the range of a u32 and wrap otherwise; the wrapped value is the integer  *)
(* sum in this reading.                                                     *)
(*                                                                         *)
(* An instruction word is kept decoded: the record of the handler the       *)
(* decoder picks for it (h) and of the fields the handler's decode() reads. *)
(* A pipeline slot holds a word and, as history, the address it was fetched *)
(* from. CPSR and the SPSRs are the records of their fields; the bits of a  *)
(* status register outside its fields are never set in the model.           *)

\* a < b as u32
ult(a, b) == IF (a < 0) = (b < 0) THEN a < b ELSE b < 0

\* a + b, a - b as u32 leave 0..2^32 - 1
add_overflows(a, b) == (a < 0 /\ b < 0) \/ ((a < 0) # (b < 0) /\ a + b >= 0)

sub_overflows(a, b) == ult(a, b)

\* the state t, unless the arithmetic before it overflowed in a build that checks
Checked(s, overflows, t) == IF s.overflow_checks /\ overflows THEN panic(s) ELSE t

\* arm/state.rs: enum Mode, enum Bank, Mode::bank
Mode ==
    [User |-> 16, Fiq |-> 17, Irq |-> 18, Supervisor |-> 19, Abort |-> 23,
     Undefined |-> 27, System |-> 31]

Bank == {"USR", "FIQ", "IRQ", "SVC", "ABT", "UND"}

bank(mode) ==
    CASE mode \in {Mode.User, Mode.System} -> "USR"
      [] mode = Mode.Fiq -> "FIQ"
      [] mode = Mode.Irq -> "IRQ"
      [] mode = Mode.Supervisor -> "SVC"
      [] mode = Mode.Abort -> "ABT"
      [] mode = Mode.Undefined -> "UND"

\* StatusReg(bits), for a value below 0x100
StatusReg(bits) ==
    [mode |-> bits % 32, thumb |-> Bit(bits, 5) = 1, f |-> Bit(bits, 6) = 1,
     i |-> Bit(bits, 7) = 1, q |-> FALSE, v |-> FALSE, c |-> FALSE, z |-> FALSE,
     n |-> FALSE]

\* State::default
StateDefault ==
    [gpr |-> [r \in 0..15 |-> 0],
     gpr_banked |-> [b \in Bank |-> [i \in 0..6 |-> 0]],
     cpsr |-> StatusReg(0),
     spsr |-> "USR",
     spsr_banked |-> [b \in Bank |-> StatusReg(0)]]

\* State::spsr
spsr(st) == IF st.spsr \in Bank THEN st.spsr_banked[st.spsr] ELSE st.cpsr

\* the word 0, and a slot that holds it without a fetch
ZeroWord ==
    [h |-> "zero", cond |-> "EQ", op |-> "AND", s |-> FALSE, rhs |-> "reg", rd |-> 0,
     rn |-> 0, rm |-> 0, imm |-> 0]

ZeroSlot == [word |-> ZeroWord, fetched |-> FALSE, from |-> 0]

\* Cpu::new. memory is what the code bus reads: the word at each address of
\* the loaded code (0 elsewhere); exception_vector is the bit of the
\* coprocessor's control register (always clear on the ARMv4).
CpuNew ==
    [irq |-> FALSE, halted |-> FALSE, state |-> StateDefault,
     pipeline |-> [i \in 0..1 |-> ZeroSlot], instruction |-> ZeroSlot,
     memory |-> <<>>, exception_vector |-> FALSE]

\* Coprocessor::get_exception_base
get_exception_base(s, arch) ==
    IF arch = "ARMv5" /\ s.cpu[arch].exception_vector THEN -65536 ELSE 0

\* code_read_half, code_read_word: Memory::read_half and read_word align the address
code_read(s, arch, addr) ==
    [word |-> IF addr \in DOMAIN s.cpu[arch].memory THEN s.cpu[arch].memory[addr]
              ELSE ZeroWord,
     fetched |-> TRUE, from |-> addr]

code_read_half(s, arch, addr) == code_read(s, arch, addr - (addr % 2))

code_read_word(s, arch, addr) == code_read(s, arch, addr - (addr % 4))

\* a mode switch that leaves the banked registers where they are
switch_mode_without_swap(s, arch, mode) ==
    [s EXCEPT !.cpu[arch].state.spsr = IF bank(mode) # "USR" THEN bank(mode) ELSE "CPSR",
              !.cpu[arch].state.cpsr.mode = mode]

switch_mode(s, arch, mode) ==
    LET st == s.cpu[arch].state
        old == bank(st.cpsr.mode)
        new == bank(mode)
        fiq == old = "FIQ" \/ new = "FIQ"
        banked == [st.gpr_banked EXCEPT
                      ![old] = [i \in 0..6 |-> IF fiq \/ i >= 5 THEN st.gpr[i + 8] ELSE @[i]]]
    IN  [s EXCEPT !.cpu[arch].state =
            [st EXCEPT !.spsr = IF new # "USR" THEN new ELSE "CPSR",
                       !.cpsr.mode = mode,
                       !.gpr_banked = banked,
                       !.gpr = [r \in 0..15 |->
                                   IF r >= 8 /\ r <= 14 /\ (fiq \/ r >= 13)
                                   THEN banked[new][r - 8] ELSE st.gpr[r]]]]

\* thumb_flush_pipeline, arm_flush_pipeline
thumb_flush_pipeline(s, arch) ==
    LET st == s.cpu[arch].state
        pc_ == st.gpr[15] - (st.gpr[15] % 2)
    IN  IF ~st.cpsr.thumb THEN panic(s)                                       \* assert!
        ELSE Checked(s, add_overflows(pc_, 2) \/ add_overflows(pc_, 4),
                 [s EXCEPT !.cpu[arch].pipeline =
                               [i \in 0..1 |-> code_read_half(s, arch, pc_ + 2 * i)],
                           !.cpu[arch].state.gpr[15] = pc_ + 4])

arm_flush_pipeline(s, arch) ==
    LET st == s.cpu[arch].state
        pc_ == st.gpr[15] - (st.gpr[15] % 4)
    IN  IF st.cpsr.thumb THEN panic(s)                                        \* assert!
        ELSE Checked(s, add_overflows(pc_, 4) \/ add_overflows(pc_, 8),
                 [s EXCEPT !.cpu[arch].pipeline =
                               [i \in 0..1 |-> code_read_word(s, arch, pc_ + 4 * i)],
                           !.cpu[arch].state.gpr[15] = pc_ + 8])

\* the flush that set_gpr makes after a write of the PC, and that the
\* handlers make after a write of the PC that may change the state
flush_pipeline(s, arch) ==
    IF s.cpu[arch].state.cpsr.thumb THEN thumb_flush_pipeline(s, arch)
    ELSE arm_flush_pipeline(s, arch)

\* set_gpr
set_gpr(s, arch, reg, val) ==
    LET t == [s EXCEPT !.cpu[arch].state.gpr[reg] = val]
    IN  IF reg = 15 THEN flush_pipeline(t, arch) ELSE t

\* set_gpr_banked
set_gpr_banked(s, arch, gpr, mode, value) ==
    LET start == IF mode = Mode.Fiq THEN 8 ELSE 13
    IN  IF s.cpu[arch].state.cpsr.mode # mode /\ gpr >= start /\ gpr <= 14
        THEN [s EXCEPT !.cpu[arch].state.gpr_banked[bank(mode)][gpr - 8] = value]
        ELSE set_gpr(s, arch, gpr, value)

\* the entry into an exception, as handle_interrupt, undefined_exception and
\* the two software-interrupt handlers make it: save CPSR in the SPSR of
\* bank_, switch to mode, set I, set the Thumb bit to thumb, LR = lr_,
\* PC = the exception base + offset, and flush as in 32-bit state
exception_entry(s, arch, bank_, mode, thumb, lr_, lr_overflows, offset) ==
    LET s1 == switch_mode([s EXCEPT !.cpu[arch].state.spsr_banked[bank_] =
                                        s.cpu[arch].state.cpsr],
                          arch, mode)
        s2 == [s1 EXCEPT !.cpu[arch].state.cpsr.i = TRUE,
                         !.cpu[arch].state.cpsr.thumb = thumb,
                         !.cpu[arch].state.gpr[14] = lr_,
                         !.cpu[arch].state.gpr[15] = get_exception_base(s, arch) + offset]
    IN  Checked(s1, lr_overflows, arm_flush_pipeline(s2, arch))

\* handle_interrupt
handle_interrupt(s, arch) ==
    LET st == s.cpu[arch].state
        t == [s EXCEPT !.cpu[arch].halted = FALSE]
    IN  IF st.cpsr.thumb
        THEN exception_entry(t, arch, "IRQ", Mode.Irq, FALSE, st.gpr[15], FALSE, 24)
        ELSE exception_entry(t, arch, "IRQ", Mode.Irq, FALSE, st.gpr[15] - 4,
                             sub_overflows(st.gpr[15], 4), 24)

\* undefined_exception: the Thumb bit is left as it is
undefined_exception(s, arch) ==
    LET st == s.cpu[arch].state
    IN  exception_entry(s, arch, "UND", Mode.Undefined, st.cpsr.thumb, st.gpr[15] - 4,
                        sub_overflows(st.gpr[15], 4), 4)

\* evaluate_cond, for the conditions of the model's code
evaluate_cond(s, arch, cond) ==
    CASE cond = "AL" -> TRUE
      [] cond = "EQ" -> s.cpu[arch].state.cpsr.z
      [] cond = "NE" -> ~s.cpu[arch].state.cpsr.z

\* set_nz
set_nz(s, arch, res) ==
    [s EXCEPT !.cpu[arch].state.cpsr.n = res < 0, !.cpu[arch].state.cpsr.z = res = 0]

\* PC += n at the end of a handler
advance(s, arch, n) ==
    Checked(s, add_overflows(s.cpu[arch].state.gpr[15], n),
            [s EXCEPT !.cpu[arch].state.gpr[15] = @ + n])

\* arm_branch_exchange
arm_branch_exchange(s, arch, w) ==
    LET val == s.cpu[arch].state.gpr[w.rm]
    IN  IF val % 2 = 1
        THEN thumb_flush_pipeline([s EXCEPT !.cpu[arch].state.cpsr.thumb = TRUE,
                                            !.cpu[arch].state.gpr[15] = val - 1], arch)
        ELSE arm_flush_pipeline([s EXCEPT !.cpu[arch].state.gpr[15] = val - (val % 4)],
                                arch)

\* arm_branch_link
arm_branch_link(s, arch, w) ==
    LET st == s.cpu[arch].state
        t == [s EXCEPT !.cpu[arch].state.gpr[14] = IF w.s THEN st.gpr[15] - 4 ELSE @,
                       !.cpu[arch].state.gpr[15] = @ + w.imm]
    IN  Checked(s, (w.s /\ sub_overflows(st.gpr[15], 4)) \/ add_overflows(st.gpr[15], w.imm),
                arm_flush_pipeline(t, arch))

\* arm_branch_link_exchange_register
arm_branch_link_exchange_register(s, arch, w) ==
    LET st == s.cpu[arch].state
        t == [s EXCEPT !.cpu[arch].state.gpr[14] = st.gpr[15] - 4]
    IN  IF arch = "ARMv4" THEN s                                              \* return warn!(..)
        ELSE Checked(s, sub_overflows(st.gpr[15], 4),
                     arm_branch_exchange(t, arch, w))

\* u32::leading_zeros
RECURSIVE BitLength(_)
BitLength(x) == IF x = 0 THEN 0 ELSE 1 + BitLength(x \div 2)

leading_zeros(x) == IF x < 0 THEN 0 ELSE 32 - BitLength(x)

\* arm_count_leading_zeroes
arm_count_leading_zeroes(s, arch, w) ==
    IF arch = "ARMv4" THEN undefined_exception(s, arch)
    ELSE advance([s EXCEPT !.cpu[arch].state.gpr[w.rd] =
                               leading_zeros(s.cpu[arch].state.gpr[w.rm])], arch, 4)

\* alu_mov, alu_add, alu_sub under the opcode of a data-processing word:
\* the result, whether the arithmetic overflows, and the flags set_flags sets
alu(st, op, op1, op2) ==
    CASE op = "MOV" -> [result |-> op2, overflows |-> FALSE,
                        c |-> st.cpsr.c, v |-> st.cpsr.v]
      [] op = "ADD" -> [result |-> op1 + op2, overflows |-> add_overflows(op1, op2),
                        c |-> add_overflows(op1, op2),
                        v |-> (op1 < 0) = (op2 < 0) /\ (op2 < 0) # (op1 + op2 < 0)]
      [] op = "SUB" -> [result |-> op1 - op2, overflows |-> sub_overflows(op1, op2),
                        c |-> ~ult(op1, op2),
                        v |-> (op1 < 0) # (op2 < 0) /\ (op1 < 0) # (op1 - op2 < 0)]

\* arm_data_processing, for MOV, ADD and SUB with an immediate that was not
\* rotated or with a register shifted by LSL #0
arm_data_processing(s, arch, w) ==
    LET st == s.cpu[arch].state
        op2 == IF w.rhs = "imm" THEN w.imm ELSE st.gpr[w.rm]
        r == alu(st, w.op, st.gpr[w.rn], op2)
        s1 == [s EXCEPT !.cpu[arch].state.gpr[w.rd] = r.result]
        s2 == IF w.s
              THEN [set_nz(s1, arch, r.result) EXCEPT !.cpu[arch].state.cpsr.c = r.c,
                                                       !.cpu[arch].state.cpsr.v = r.v]
              ELSE s1
        saved == spsr(s2.cpu[arch].state)
        s3 == IF w.rd = 15 /\ w.s
              THEN [switch_mode(s2, arch, saved.mode) EXCEPT !.cpu[arch].state.cpsr = saved]
              ELSE s2
    IN  Checked(s, r.overflows,
                IF w.rd = 15 THEN flush_pipeline(s3, arch) ELSE advance(s3, arch, 4))

\* arm_status_store_immediate with the field mask 0x000000ff: a write of the
\* control byte of CPSR (w.s clear) or of the current SPSR (w.s set)
arm_status_store_immediate(s, arch, w) ==
    LET st == s.cpu[arch].state
        val == StatusReg(w.imm % 256)
        store(reg) == [reg EXCEPT !.mode = val.mode, !.thumb = val.thumb,
                                  !.f = val.f, !.i = val.i]
    IN  advance(IF w.s
                THEN IF st.spsr \in Bank
                     THEN [s EXCEPT !.cpu[arch].state.spsr_banked[st.spsr] = store(@)]
                     ELSE [s EXCEPT !.cpu[arch].state.cpsr = store(@)]
                ELSE [switch_mode(s, arch, val.mode) EXCEPT
                         !.cpu[arch].state.cpsr = store(@)],
                arch, 4)

\* arm_software_interrupt
arm_software_interrupt(s, arch) ==
    LET st == s.cpu[arch].state
    IN  exception_entry(s, arch, "SVC", Mode.Supervisor, st.cpsr.thumb, st.gpr[15] - 4,
                        sub_overflows(st.gpr[15], 4), 8)

\* thumb_alu_immediate, opcode MOV
thumb_alu_immediate(s, arch, w) ==
    advance([s EXCEPT !.cpu[arch].state.gpr[w.rd] = w.imm,
                      !.cpu[arch].state.cpsr.n = FALSE,
                      !.cpu[arch].state.cpsr.z = w.imm = 0], arch, 2)

\* thumb_branch
thumb_branch(s, arch, w) ==
    Checked(s, add_overflows(s.cpu[arch].state.gpr[15], w.imm),
            thumb_flush_pipeline([s EXCEPT !.cpu[arch].state.gpr[15] = @ + w.imm], arch))

\* thumb_branch_exchange
thumb_branch_exchange(s, arch, w) ==
    LET val == s.cpu[arch].state.gpr[w.rm]
    IN  IF val % 2 = 1
        THEN thumb_flush_pipeline([s EXCEPT !.cpu[arch].state.gpr[15] = val - 1], arch)
        ELSE arm_flush_pipeline([s EXCEPT !.cpu[arch].state.cpsr.thumb = FALSE,
                                          !.cpu[arch].state.gpr[15] = val - (val % 4)],
                                arch)

\* thumb_load_store_register_offset, opcode STR: the handler ends without
\* a change of the PC
thumb_load_store_register_offset(s, arch, w) ==
    LET st == s.cpu[arch].state
    IN  Checked(s, add_overflows(st.gpr[w.rn], st.gpr[w.rm]),
                write_word(s, arch, st.gpr[w.rn] + st.gpr[w.rm], st.gpr[w.rd]))

\* thumb_software_interrupt: set_thumb(true)
thumb_software_interrupt(s, arch) ==
    LET st == s.cpu[arch].state
    IN  exception_entry(s, arch, "SVC", Mode.Supervisor, TRUE, st.gpr[15] - 2,
                        sub_overflows(st.gpr[15], 2), 8)

\* Decoder::decode_arm, decode_thumb and the call of the handler. A word of
\* the other instruction set, or the word 0, is not followed.
arm_handler(s, arch, w) ==
    CASE w.h = "arm_branch_exchange" -> arm_branch_exchange(s, arch, w)
      [] w.h = "arm_branch_link" -> arm_branch_link(s, arch, w)
      [] w.h = "arm_branch_link_exchange_register" ->
             arm_branch_link_exchange_register(s, arch, w)
      [] w.h = "arm_count_leading_zeroes" -> arm_count_leading_zeroes(s, arch, w)
      [] w.h = "arm_data_processing" -> arm_data_processing(s, arch, w)
      [] w.h = "arm_status_store_immediate" -> arm_status_store_immediate(s, arch, w)
      [] w.h = "arm_software_interrupt" -> arm_software_interrupt(s, arch)

thumb_handler(s, arch, w) ==
    CASE w.h = "thumb_alu_immediate" -> thumb_alu_immediate(s, arch, w)
      [] w.h = "thumb_branch" -> thumb_branch(s, arch, w)
      [] w.h = "thumb_branch_exchange" -> thumb_branch_exchange(s, arch, w)
      [] w.h = "thumb_load_store_register_offset" ->
             thumb_load_store_register_offset(s, arch, w)
      [] w.h = "thumb_software_interrupt" -> thumb_software_interrupt(s, arch)

ArmHandlers ==
    {"arm_branch_exchange", "arm_branch_link", "arm_branch_link_exchange_register",
     "arm_count_leading_zeroes", "arm_data_processing", "arm_status_store_immediate",
     "arm_software_interrupt"}

ThumbHandlers ==
    {"thumb_alu_immediate", "thumb_branch", "thumb_branch_exchange",
     "thumb_load_store_register_offset", "thumb_software_interrupt"}

\* Cpu::run, one pass of its loop that takes no interrupt: the state at the
\* entry of the handler (the slots shifted, the PC aligned, the next word
\* fetched), and the state after the handler
run_fetch(s, arch) ==
    LET c == s.cpu[arch]
        r15 == c.state.gpr[15]
        pc_ == IF c.state.cpsr.thumb THEN r15 - (r15 % 2) ELSE r15 - (r15 % 4)
    IN  [s EXCEPT !.cpu[arch].instruction = c.pipeline[0],
                  !.cpu[arch].state.gpr[15] = pc_,
                  !.cpu[arch].pipeline =
                      [i \in 0..1 |-> IF i = 0 THEN c.pipeline[1]
                                      ELSE IF c.state.cpsr.thumb
                                           THEN code_read_half(s, arch, pc_)
                                           ELSE code_read_word(s, arch, pc_)]]

run_instruction(s, arch) ==
    LET t == run_fetch(s, arch)
        w == t.cpu[arch].instruction.word
    IN  IF t.cpu[arch].state.cpsr.thumb THEN thumb_handler(t, arch, w)
        ELSE IF evaluate_cond(t, arch, w.cond) THEN arm_handler(t, arch, w)
        ELSE advance(t, arch, 4)

\* Arm9::direct_boot and Arm7::direct_boot, as far as the CPU goes
direct_boot(s, arch, entrypoint) ==
    IF arch = "ARMv5"
    THEN LET s0 == [s EXCEPT !.cpu[arch].exception_vector = TRUE,         \* 0x0005707d
                             !.cpu[arch].state.cpsr = StatusReg(223)]
             s1 == set_gpr(set_gpr(s0, arch, 12, entrypoint), arch, 13, 50343804)
             s2 == set_gpr_banked(set_gpr_banked(s1, arch, 13, Mode.Irq, 50347904),
                                  arch, 13, Mode.Supervisor, 50347968)
         IN  set_gpr(set_gpr(s2, arch, 14, entrypoint), arch, 15, entrypoint)
    ELSE LET s0 == [s EXCEPT !.cpu[arch].state.gpr =
                                 [r \in 0..15 |-> IF r \in {12, 14, 15} THEN entrypoint
                                                  ELSE IF r = 13 THEN 58785152 ELSE @[r]],
                             !.cpu[arch].state.gpr_banked["IRQ"][5] = 58785664,
                             !.cpu[arch].state.gpr_banked["SVC"][5] = 58785728,
                             !.cpu[arch].state.cpsr = StatusReg(223)]
         IN  arm_flush_pipeline(switch_mode(s0, arch, Mode.System), arch)

\* Cpu::reset
cpu_reset(s, arch) ==
    LET s0 == [s EXCEPT !.cpu[arch].state = [StateDefault EXCEPT !.cpsr = StatusReg(211)]]
    IN  [switch_mode(s0, arch, Mode.Supervisor) EXCEPT
            !.cpu[arch].pipeline = [i \in 0..1 |-> ZeroSlot],
            !.cpu[arch].irq = FALSE,
            !.cpu[arch].halted = FALSE]

\* System::reset up to the boot: Arm7::reset resets its CPU, Arm9::reset
\* only its memory; the scheduler, the interrupt controllers and the IPC
\* unit are not among the components it resets. The SPI, SPU and RTC have no
\* part in the state of the model.
reset(s) ==
    LET s1 == video_reset(load(cpu_reset(s, "ARMv4")))
    IN  IF s1.panicked THEN s1
        ELSE timer_reset(timer_reset(dma_reset(dma_reset(s1, "ARMv4"), "ARMv5"),
                                     "ARMv4"), "ARMv5")

\* System::direct_boot, with the entry points of the cartridge header
system_direct_boot(s, entry7, entry9) ==
    IF s.panicked THEN s
    ELSE direct_boot(direct_boot(s, "ARMv4", entry7), "ARMv5", entry9)

\* write_exmemcnt: (exmemcnt & !mask) | (val | mask), on 16 bits
write_exmemcnt(s, val, mask) ==
    [s EXCEPT !.exmemcnt = BitOr(BitAnd(@, 65535 - mask), BitOr(val, mask))]


-----------------------------------------------------------------------------
(* The state record the operations work on, and its write-back.            *)

State ==
    [events |-> events, capacity |-> capacity, current_time |-> current_time,
     infos |-> infos, vcount |-> vcount, dispstat |-> dispstat, irq |-> irq,
     cpu |-> cpu, dma |-> dma, timer |-> timer, ipc |-> ipc, main_memory |-> main_memory,
     math_unit |-> math_unit,
     cartridge |-> cartridge, pages |-> pages, vram |-> vram, exmemcnt |-> exmemcnt,
     overflow_checks |-> overflow_checks, panicked |-> panicked,
     fired |-> fired, queued |-> queued, cancelled |-> cancelled, io |-> io,
     iter_live |-> TRUE, stale |-> <<>>, uaf |-> "inplace"]

Becomes(s) ==
    /\ events' = s.events
    /\ capacity' = s.capacity
    /\ current_time' = s.current_time
    /\ infos' = s.infos
    /\ vcount' = s.vcount
    /\ dispstat' = s.dispstat
    /\ irq' = s.irq
    /\ cpu' = s.cpu
    /\ dma' = s.dma
    /\ timer' = s.timer
    /\ ipc' = s.ipc
    /\ main_memory' = s.main_memory
    /\ math_unit' = s.math_unit
    /\ cartridge' = s.cartridge
    /\ pages' = s.pages
    /\ vram' = s.vram
    /\ exmemcnt' = s.exmemcnt
    /\ overflow_checks' = s.overflow_checks
    /\ panicked' = s.panicked
    /\ fired' = s.fired
    /\ queued' = s.queued
    /\ cancelled' = s.cancelled
    /\ io' = s.io

\* no IPC traffic yet: sends[a] words of a that went into its FIFO, writes
\* counted accesses, returned[a] the word the last IPCFIFORECV read of a
\* returned (-1: none yet), unread[a] the words of a that went into its FIFO
\* and have not been taken out; heavy is the CPU that sends under IpcSpec;
\* entered is the time, the line and the number of fired events at the last
\* call of run_frame; shared is, under ModeSpec, what was last written to
\* R8-R12 in a mode other than FIQ
NoTraffic ==
    [sends |-> [a \in Arch |-> 0], writes |-> 0, returned |-> [a \in Arch |-> -1],
     unread |-> [a \in Arch |-> <<>>], heavy |-> "none",
     entered |-> [time |-> 0, vcount |-> 0, fired |-> 0],
     shared |-> [r \in 8..12 |-> 0]]

\* System::new: the state of the components before reset
NewSystem ==
    [events |-> <<>>, capacity |-> 0, current_time |-> 0, infos |-> <<>>,
     vcount |-> 0, dispstat |-> [a \in Arch |-> 0],
     irq |-> [a \in Arch |-> [ime |-> FALSE, ie |-> 0, irf |-> 0]],
     cpu |-> [a \in Arch |-> CpuNew],
     dma |-> [a \in Arch |-> [i \in 0..3 |-> DmaChannelDefault]],
     timer |-> [a \in Arch |-> [i \in 0..3 |-> TimerChannelDefault]],
     ipc |-> IpcNew,
     main_memory |-> <<>>,
     math_unit |-> MathUnitDefault,
     cartridge |-> CartridgeNew,
     pages |-> PagesNew,
     vram |-> VramNew,
     exmemcnt |-> 0,
     overflow_checks |-> TRUE, panicked |-> FALSE,
     fired |-> <<>>, queued |-> {}, cancelled |-> {}, io |-> NoTraffic,
     iter_live |-> TRUE, stale |-> <<>>, uaf |-> "inplace"]

-----------------------------------------------------------------------------
(* The scheduler harness: a client that registers callbacks and calls      *)
(* add_event, cancel_event, tick and run in any order on a new Scheduler.  *)

SchedInit ==
    /\ events = NewSystem.events
    /\ capacity = NewSystem.capacity
    /\ current_time = NewSystem.current_time
    /\ infos = NewSystem.infos
    /\ vcount = NewSystem.vcount
    /\ dispstat = NewSystem.dispstat
    /\ irq = NewSystem.irq
    /\ cpu = NewSystem.cpu
    /\ dma = NewSystem.dma
    /\ timer = NewSystem.timer
    /\ ipc = NewSystem.ipc
    /\ main_memory = NewSystem.main_memory
    /\ math_unit = NewSystem.math_unit
    /\ cartridge = NewSystem.cartridge
    /\ pages = NewSystem.pages
    /\ vram = NewSystem.vram
    /\ exmemcnt = NewSystem.exmemcnt
    /\ pc = "out"
    /\ frame_end = 0
    /\ cycles = 0
    /\ overflow_checks = TRUE
    /\ panicked = FALSE
    /\ program = <<>>
    /\ fired = <<>>
    /\ queued = {}
    /\ cancelled = {}
    /\ io = NoTraffic
    /\ last = [op |-> "new"]

\* register_event: the next id, and the callback behind it. The harness
\* registers its callbacks in the order of HarnessCallbacks.
RegisterEvent ==
    /\ ~panicked
    /\ Len(infos) < Len(HarnessCallbacks)
    /\ Becomes(register_event(State, HarnessCallbacks[Len(infos) + 1]))
    /\ last' = [op |-> "register_event"]
    /\ UNCHANGED <<pc, frame_end, cycles, program>>

AddEvent(delay, id) ==
    /\ ~panicked
    /\ Cardinality(queued) < MaxAdds
    /\ Becomes(add_event(State, delay, id))
    /\ last' = [op |-> "add_event", time |-> current_time + delay, id |-> id]
    /\ UNCHANGED <<pc, frame_end, cycles, program>>

CancelEvent(id) ==
    /\ ~panicked
    /\ \E i \in 1..Len(events) : events[i].id = id
    /\ Becomes(cancel_event(State, id))
    /\ last' = [op |-> "cancel_event", id |-> id]
    /\ UNCHANGED <<pc, frame_end, cycles, program>>

Tick(cycles_) ==
    /\ ~panicked
    /\ current_time + cycles_ <= MaxSchedTime
    /\ Becomes(tick(State, cycles_))
    /\ last' = [op |-> "tick"]
    /\ UNCHANGED <<pc, frame_end, cycles, program>>

Run(uaf) ==
    /\ ~panicked
    /\ Becomes(run(State, uaf))
    /\ last' = [op |-> "run", queued_before |-> Cardinality(queued),
                fired_before |-> Len(fired)]
    /\ UNCHANGED <<pc, frame_end, cycles, program>>

SchedNext ==
    \/ RegisterEvent
    \/ \E delay \in 0..MaxDelay, id \in 0..(Len(infos) - 1) : AddEvent(delay, id)
    \/ \E id \in 0..(Len(infos) - 1) : CancelEvent(id)
    \/ \E cycles_ \in 1..MaxTick : Tick(cycles_)
    \/ \E uaf \in UafOutcomes : Run(uaf)

SchedSpec == SchedInit /\ [][SchedNext]_vars

-----------------------------------------------------------------------------
(* The running system: System::reset has run, the front end calls          *)
(* run_frame, and the guest code the two CPUs execute performs memory and  *)
(* MMIO writes. A guest program is the sequence of its writes; each is     *)
(* performed by the CPU it names, while run_frame runs that CPU.           *)

Op(reg, arch, id, val) == [reg |-> reg, arch |-> arch, id |-> id, addr |-> 0, val |-> val]

\* a word store to main memory
Store(arch, addr, val) == [reg |-> "STORE", arch |-> arch, id |-> 0, addr |-> addr, val |-> val]

\* source 0x02000000 holds a pattern in its first and last word
StorePattern ==
    <<Store("ARMv5", 33554432, 305441741), Store("ARMv5", 33554492, 19088743)>>

\* source 0x02000000, destination 0x02100000, length 0x10, then the control halfword
DmaSetup(arch, id, control) ==
    <<Op("DMA_SOURCE", arch, id, 33554432), Op("DMA_DESTINATION", arch, id, 35651584),
      Op("DMA_LENGTH", arch, id, 16), Op("DMA_CONTROL", arch, id, control)>>

GuestPrograms ==
    { <<>>,
      \* DMA of words, enabled: immediate (0x8400); at hblank (0x9400); at
      \* hblank with irq (0xD400); at hblank with repeat (0x9600)
      StorePattern \o DmaSetup("ARMv5", 0, 33792),
      StorePattern \o DmaSetup("ARMv5", 0, 37888),
      DmaSetup("ARMv5", 1, 54272),
      DmaSetup("ARMv5", 2, 38400),
      \* vblank DMA on both CPUs (0x9400 is vblank timing on ARM7, 0x8C00 on
      \* ARM9), with VCOUNT written so that line 192 is next
      <<Op("VCOUNT", "ARMv5", 0, 191)>> \o DmaSetup("ARMv4", 0, 37888)
          \o DmaSetup("ARMv5", 3, 35840),
      \* timer 1 counts up, timer 0 runs with prescaler 0 from 0xFFFF
      <<Op("TIMER_CONTROL", "ARMv5", 1, 132), Op("TIMER_RELOAD", "ARMv5", 0, 65535),
        Op("TIMER_CONTROL", "ARMv5", 0, 128)>>,
      \* the same from 0xF000, with the overflow irq of timer 0
      <<Op("IE", "ARMv5", 0, 8), Op("TIMER_CONTROL", "ARMv5", 1, 132),
        Op("TIMER_RELOAD", "ARMv5", 0, 61440), Op("TIMER_CONTROL", "ARMv5", 0, 192)>>,
      \* timer 0 set to overflow 2130 cycles after its start: at time 0 that
      \* is the time of the first scanline end
      <<Op("TIMER_RELOAD", "ARMv5", 0, 63406), Op("TIMER_CONTROL", "ARMv5", 0, 128)>>,
      \* three timers running, a fourth started and stopped
      <<Op("TIMER_CONTROL", "ARMv5", 0, 128), Op("TIMER_CONTROL", "ARMv5", 2, 128),
        Op("TIMER_CONTROL", "ARMv5", 3, 128), Op("TIMER_CONTROL", "ARMv4", 0, 128),
        Op("TIMER_CONTROL", "ARMv4", 0, 0)>>,
      \* both CPUs halt; the vblank irq wakes the ARM9
      <<Op("DISPSTAT", "ARMv5", 0, 8), Op("IE", "ARMv5", 0, 1), Op("IME", "ARMv5", 0, 1),
        Op("VCOUNT", "ARMv5", 0, 191), Op("HALTCNT", "ARMv4", 0, 128),
        Op("CP15_HALT", "ARMv5", 0, 0)>>,
      \* timers 1 to 3 count up from 0xFFFF, timer 1 with its irq: the
      \* overflow of timer 0 runs through the chain
      <<Op("TIMER_RELOAD", "ARMv5", 3, 65535), Op("TIMER_CONTROL", "ARMv5", 3, 132),
        Op("TIMER_RELOAD", "ARMv5", 2, 65535), Op("TIMER_CONTROL", "ARMv5", 2, 132),
        Op("TIMER_RELOAD", "ARMv5", 1, 65535), Op("TIMER_CONTROL", "ARMv5", 1, 196),
        Op("TIMER_RELOAD", "ARMv5", 0, 61440), Op("TIMER_CONTROL", "ARMv5", 0, 128)>>,
      \* timer 3 runs from 0xF000 with timer 0 set to count up; timer 2 of the
      \* ARM7 runs from 0xF800 with timer 3 counting up behind it
      <<Op("TIMER_CONTROL", "ARMv5", 0, 4), Op("TIMER_RELOAD", "ARMv5", 3, 61440),
        Op("TIMER_CONTROL", "ARMv5", 3, 128), Op("TIMER_RELOAD", "ARMv4", 2, 63488),
        Op("TIMER_CONTROL", "ARMv4", 2, 128), Op("TIMER_CONTROL", "ARMv4", 3, 132)>>,
      \* TM1CNT written as one word (reload 0xFFFF, count up, start), timer 0
      \* running from 0xF000
      <<Op("TIMER_WORD", "ARMv5", 1, 8716287), Op("TIMER_RELOAD", "ARMv5", 0, 61440),
        Op("TIMER_CONTROL", "ARMv5", 0, 128)>>,
      \* the hblank irq enabled
      <<Op("DISPSTAT", "ARMv4", 0, 16)>>,
      \* VCOUNT written with the last line but one, with a line inside the
      \* vblank period and with a number that is no line; DISPSTAT written
      \* with 1 in its vblank flag
      <<Op("VCOUNT", "ARMv5", 0, 261)>>,
      <<Op("VCOUNT", "ARMv5", 0, 200)>>,
      <<Op("VCOUNT", "ARMv5", 0, 300)>>,
      <<Op("DISPSTAT", "ARMv5", 0, 1)>> }

SysInit ==
    /\ overflow_checks \in BOOLEAN
    /\ program \in GuestPrograms
    /\ LET s == reset(NewSystem)
       IN  /\ events = s.events
           /\ capacity = s.capacity
           /\ current_time = s.current_time
           /\ infos = s.infos
           /\ vcount = s.vcount
           /\ dispstat = s.dispstat
           /\ irq = s.irq
           /\ cpu = s.cpu
           /\ dma = s.dma
           /\ timer = s.timer
           /\ ipc = s.ipc
           /\ main_memory = s.main_memory
           /\ math_unit = s.math_unit
           /\ cartridge = s.cartridge
           /\ pages = s.pages
           /\ vram = s.vram
           /\ exmemcnt = s.exmemcnt
           /\ panicked = s.panicked
           /\ fired = s.fired
           /\ queued = s.queued
           /\ cancelled = s.cancelled
           /\ io = s.io
    /\ pc = "out"
    /\ frame_end = 0
    /\ cycles = 0
    /\ last = [op |-> "reset"]

\* run_frame is called: frame_end is set
RunFrameEnter ==
    /\ ~panicked
    /\ pc = "out"
    /\ frame_end' = current_time + 560190
    /\ pc' = "loop"
    /\ last' = [op |-> "run_frame"]
    /\ Becomes([State EXCEPT !.io.entered =
                    [time |-> current_time, vcount |-> vcount, fired |-> Len(fired)]])
    /\ UNCHANGED <<cycles, program>>

\* the head of run_frame's loop: the loop ends, or the cycles to run are
\* taken from get_event_time(), which panics on an empty queue
RunFrameQueryUntil(limit) ==
    /\ ~panicked
    /\ pc = "loop"
    /\ current_time < limit
    /\ IF current_time >= frame_end
       THEN pc' = "out" /\ Becomes(State) /\ UNCHANGED cycles
       ELSE IF Len(events) = 0
       THEN Becomes(panic(State)) /\ UNCHANGED <<pc, cycles>>
       ELSE /\ cycles' = IF cpu["ARMv5"].halted
                         THEN events[1].time - current_time
                         ELSE Min(events[1].time - current_time, 16)
            /\ pc' = "arm9"
            /\ Becomes(State)
    /\ last' = [op |-> "query"]
    /\ UNCHANGED <<frame_end, program>>

RunFrameQuery == RunFrameQueryUntil(MaxTime)

\* arm9.run(2 * cycles) returns, arm7.run(cycles) starts
RunArm7 ==
    /\ ~panicked
    /\ pc = "arm9"
    /\ pc' = "arm7"
    /\ last' = [op |-> "arm7"]
    /\ Becomes(State)
    /\ UNCHANGED <<frame_end, cycles, program>>

\* arm7.run returns: scheduler.tick(cycles); scheduler.run()
RunFrameAdvance(uaf) ==
    /\ ~panicked
    /\ pc = "arm7"
    /\ pc' = "loop"
    /\ Becomes(run(tick(State, cycles), uaf))
    /\ last' = [op |-> "advance", fired_before |-> Len(fired)]
    /\ UNCHANGED <<frame_end, cycles, program>>

\* the CPU that runs performs the next write of the guest program
Guest(reg) ==
    /\ ~panicked
    /\ program # <<>>
    /\ program[1].reg = reg
    /\ pc = (IF program[1].arch = "ARMv5" THEN "arm9" ELSE "arm7")
    /\ ~cpu[program[1].arch].halted
    /\ current_time <= MaxGuestTime
    /\ program' = Tail(program)
    /\ last' = [op |-> "write", w |-> program[1]]
    /\ UNCHANGED <<pc, frame_end, cycles>>

StoreWord ==
    /\ Guest("STORE")
    /\ Becomes(write_word(State, program[1].arch, program[1].addr, program[1].val))

\* mmio_write of DMAxSAD, DMAxDAD (32 bits), DMAxCNT (low and high halfword)
WriteDmaSource ==
    /\ Guest("DMA_SOURCE")
    /\ Becomes(dma_write_source(State, program[1].arch, program[1].id, program[1].val, MASK_WORD))

WriteDmaDestination ==
    /\ Guest("DMA_DESTINATION")
    /\ Becomes(dma_write_destination(State, program[1].arch, program[1].id, program[1].val,
                                     MASK_WORD))

WriteDmaLength ==
    /\ Guest("DMA_LENGTH")
    /\ Becomes(dma_write_length(State, program[1].arch, program[1].id, program[1].val, MASK_LOW))

WriteDmaControl ==
    /\ Guest("DMA_CONTROL")
    /\ Becomes(dma_write_control(State, program[1].arch, program[1].id, program[1].val, 65535))

\* mmio_write of TMxCNT (low and high halfword)
WriteTimerReload ==
    /\ Guest("TIMER_RELOAD")
    /\ Becomes(timer_write_length(State, program[1].arch, program[1].id, program[1].val,
                                  MASK_LOW))

WriteTimerControl ==
    /\ Guest("TIMER_CONTROL")
    /\ Becomes(timer_write_control(State, program[1].arch, program[1].id, program[1].val, 65535))

\* mmio_write of TMxCNT as a word: write_length(id, val, MASK), then
\* write_control(id, (val >> 16) as u16, MASK >> 16)
WriteTimerWord ==
    /\ Guest("TIMER_WORD")
    /\ Becomes(timer_write_control(
                   timer_write_length(State, program[1].arch, program[1].id, program[1].val,
                                      MASK_WORD),
                   program[1].arch, program[1].id, program[1].val \div 65536, 65535))

\* mmio_write of DISPSTAT (low halfword) and of VCOUNT (ARM9 only)
WriteDispstat ==
    /\ Guest("DISPSTAT")
    /\ Becomes(write_dispstat(State, program[1].arch, program[1].val, MASK_LOW))

WriteVcount ==
    /\ Guest("VCOUNT")
    /\ program[1].arch = "ARMv5"
    /\ Becomes(write_vcount(State, program[1].val, 65535))

\* mmio_write of IME and IE
WriteIme ==
    /\ Guest("IME")
    /\ Becomes(write_ime(State, program[1].arch, program[1].val, MASK_WORD))

WriteIe ==
    /\ Guest("IE")
    /\ Becomes(write_ie(State, program[1].arch, program[1].val, MASK_WORD))

\* the ARM7 writes HALTCNT; the ARM9 writes CP15 register 0x070004
WriteHaltcnt ==
    /\ Guest("HALTCNT")
    /\ program[1].arch = "ARMv4"
    /\ Becomes(write_haltcnt(State, program[1].val))

Cp15Halt ==
    /\ Guest("CP15_HALT")
    /\ program[1].arch = "ARMv5"
    /\ Becomes(cp15_wait_for_interrupt(State))

SysNext ==
    \/ RunFrameEnter
    \/ RunFrameQuery
    \/ RunArm7
    \/ \E uaf \in UafOutcomes : RunFrameAdvance(uaf)
    \/ StoreWord
    \/ WriteDmaSource
    \/ WriteDmaDestination
    \/ WriteDmaLength
    \/ WriteDmaControl
    \/ WriteTimerReload
    \/ WriteTimerControl
    \/ WriteTimerWord
    \/ WriteDispstat
    \/ WriteVcount
    \/ WriteIme
    \/ WriteIe
    \/ WriteHaltcnt
    \/ Cp15Halt

SysSpec == SysInit /\ [][SysNext]_vars

-----------------------------------------------------------------------------
(* The accesses of the two CPUs to the IPC and interrupt registers.        *)

\* mmio_write_byte: the byte is replicated across the register and
\* dispatched with the mask of its lane (here: on the low halfword)
ByteAccess(byte, offset) == [val |-> byte * 257, mask |-> 255 * 256^offset]

HalfAccess(val) == [val |-> val, mask |-> 65535]

\* the word a CPU writes to IPCFIFOSEND after n of its words went in
SendWord(arch, n) == (IF arch = "ARMv4" THEN 112 ELSE 144) + n

\* the system after reset, with no guest program
IpcInit(heavy) ==
    /\ overflow_checks = TRUE
    /\ program = <<>>
    /\ LET s == reset(NewSystem)
       IN  /\ events = s.events
           /\ capacity = s.capacity
           /\ current_time = s.current_time
           /\ infos = s.infos
           /\ vcount = s.vcount
           /\ dispstat = s.dispstat
           /\ irq = s.irq
           /\ cpu = s.cpu
           /\ dma = s.dma
           /\ timer = s.timer
           /\ ipc = s.ipc
           /\ main_memory = s.main_memory
           /\ math_unit = s.math_unit
           /\ cartridge = s.cartridge
           /\ pages = s.pages
           /\ vram = s.vram
           /\ exmemcnt = s.exmemcnt
           /\ panicked = s.panicked
           /\ fired = s.fired
           /\ queued = s.queued
           /\ cancelled = s.cancelled
    /\ io \in {[NoTraffic EXCEPT !.heavy = h] : h \in heavy}
    /\ pc = "arm9"
    /\ frame_end = 560190
    /\ cycles = 16
    /\ last = [op |-> "reset"]

\* Under IpcSpec one CPU (io.heavy) sends, up to MaxSends words, and both
\* receive; under IrqSpec (io.heavy = "none") both send and receive, and
\* every access counts towards MaxIrqOps.
SendLimit(arch) ==
    IF io.heavy = "none" THEN FifoSize + 1 ELSE IF arch = io.heavy THEN MaxSends ELSE 0

Counted == io.heavy = "none"

\* mmio_write of IPCFIFOSEND
IpcSend(arch) ==
    LET val == SendWord(arch, io.sends[arch])
        accepted == /\ IpcFifoCnt(ipc.ipcfifocnt[arch]).enable_fifos
                    /\ Len(io.unread[arch]) < FifoSize
        s == write_ipcfifosend(State, arch, val)
    IN  /\ ~panicked
        /\ accepted => io.sends[arch] < SendLimit(arch)
        /\ Counted => io.writes < MaxIrqOps
        /\ Becomes([s EXCEPT !.io.sends[arch] = IF accepted THEN @ + 1 ELSE @,
                             !.io.writes = IF Counted THEN @ + 1 ELSE @,
                             !.io.unread[arch] = IF accepted THEN Append(@, val) ELSE @])
        /\ last' = [op |-> "write_ipcfifosend", arch |-> arch]
        /\ UNCHANGED <<pc, frame_end, cycles, program>>

\* mmio_read of IPCFIFORECV
IpcRecv(arch) ==
    LET s == read_ipcfiforecv(State, arch)
        ret == s.ipc.ipcfiforecv[arch]
        taken == /\ IpcFifoCnt(ipc.ipcfifocnt[arch]).enable_fifos
                 /\ io.unread[Not(arch)] # <<>>
    IN  /\ ~panicked
        /\ Counted => io.writes < MaxIrqOps
        /\ Becomes([s EXCEPT !.io.returned[arch] = ret,
                             !.io.writes = IF Counted THEN @ + 1 ELSE @,
                             !.io.unread[Not(arch)] = IF taken THEN Tail(@) ELSE @])
        /\ last' = [op |-> "read_ipcfiforecv", arch |-> arch]
        /\ UNCHANGED <<pc, frame_end, cycles, program>>

\* mmio_write of IPCFIFOCNT
IpcWriteFifoCnt(arch, w) ==
    /\ ~panicked
    /\ Becomes([write_ipcfifocnt(State, arch, w.val, w.mask)
                    EXCEPT !.io.unread[arch] = IF Bit(w.val, 3) = 1 THEN <<>> ELSE @])
    /\ last' = [op |-> "write_ipcfifocnt", arch |-> arch, val |-> w.val, mask |-> w.mask]
    /\ UNCHANGED <<pc, frame_end, cycles, program>>

\* enable and disable (halfword writes), and the byte 0x40 written to the
\* low byte
FifoCntWrites == {HalfAccess(32768), HalfAccess(0), ByteAccess(64, 0)}

IpcNext ==
    \/ \E arch \in Arch : IpcSend(arch)
    \/ \E arch \in Arch : IpcRecv(arch)
    \/ \E arch \in Arch, w \in FifoCntWrites : IpcWriteFifoCnt(arch, w)

IpcSpec == IpcInit({"ARMv5"}) /\ [][IpcNext]_vars

\* the writes of the two CPUs to IPCSYNC, IPCFIFOCNT, IME, IE and IF
IrqWrite(s, op, arch, w) ==
    /\ ~panicked
    /\ io.writes < MaxIrqOps
    /\ Becomes([s EXCEPT !.io.writes = @ + 1])
    /\ last' = [op |-> op, arch |-> arch, val |-> w.val, mask |-> w.mask,
                before |-> irq[arch].irf]
    /\ UNCHANGED <<pc, frame_end, cycles, program>>

\* output 0xA with the send irq; the receive irq enabled; output 5
SyncWrites == {HalfAccess(10752), HalfAccess(16384), HalfAccess(1280)}

IrqWriteSync(arch, w) ==
    IrqWrite(write_ipcsync(State, arch, w.val, w.mask), "write_ipcsync", arch, w)

\* FIFOs enabled, with and without the two FIFO irqs
IrqCntWrites == {HalfAccess(33796), HalfAccess(32768)}

IrqWriteFifoCnt(arch, w) ==
    IrqWrite(write_ipcfifocnt(State, arch, w.val, w.mask), "write_ipcfifocnt", arch, w)

WordAccess(val) == [val |-> val, mask |-> MASK_WORD]

IrqWriteIme(arch, val) ==
    IrqWrite(write_ime(State, arch, val, MASK_WORD), "write_ime", arch, WordAccess(val))

\* the three IPC sources
IrqWriteIe(arch) ==
    IrqWrite(write_ie(State, arch, 458752, MASK_WORD), "write_ie", arch, WordAccess(458752))

\* IF written with the send-empty bit as a word, and with the three IPC
\* bits through the lane of byte 2 and through the low halfword
IfWrites ==
    {WordAccess(131072), [val |-> 458752, mask |-> [hi |-> 255, lo |-> 0]],
     [val |-> 458752, mask |-> MASK_LOW]}

IrqWriteIf(arch, w) ==
    IrqWrite(write_irf(State, arch, w.val, w.mask), "write_irf", arch, w)

IrqNext ==
    \/ \E arch \in Arch : IpcSend(arch)
    \/ \E arch \in Arch : IpcRecv(arch)
    \/ \E arch \in Arch, w \in SyncWrites : IrqWriteSync(arch, w)
    \/ \E arch \in Arch, w \in IrqCntWrites : IrqWriteFifoCnt(arch, w)
    \/ \E arch \in Arch, val \in 0..1 : IrqWriteIme(arch, val)
    \/ \E arch \in Arch : IrqWriteIe(arch)
    \/ \E arch \in Arch, w \in IfWrites : IrqWriteIf(arch, w)

IrqSpec == IpcInit({"none"}) /\ [][IrqNext]_vars

-----------------------------------------------------------------------------
(* The code the CPUs run under CpuSpec, and the passes of Cpu::run.        *)
(*                                                                         *)
(* Each CPU boots into one of a few pieces of code (CodeImages); Cpu::run   *)
(* is followed one pass of its loop at a time, and a pass that takes an     *)
(* interrupt is followed as the entry (CpuInterrupt) and the instruction    *)
(* after it (CpuExecute): handle_interrupt sets I, so the rest of that pass *)
(* is a pass without an interrupt. Execution is followed as long as the     *)
(* next word is in the code and of the instruction set of the CPU's state.  *)

\* the entry point of the cartridge header, in main memory
EntryPoint == 33554432

DataImm(cond, op, s, rd, rn, imm) ==
    [h |-> "arm_data_processing", cond |-> cond, op |-> op, s |-> s, rhs |-> "imm",
     rd |-> rd, rn |-> rn, rm |-> 0, imm |-> imm]

DataReg(cond, op, s, rd, rn, rm) ==
    [h |-> "arm_data_processing", cond |-> cond, op |-> op, s |-> s, rhs |-> "reg",
     rd |-> rd, rn |-> rn, rm |-> rm, imm |-> 0]

\* a word of another handler: its link or spsr bit, its registers, its
\* immediate or offset
Other(h, s, rd, rm, imm) ==
    [h |-> h, cond |-> "AL", op |-> "MOV", s |-> s, rhs |-> "imm", rd |-> rd, rn |-> rm,
     rm |-> rm, imm |-> imm]

\* 16-bit code that stores in a loop, entered from 32-bit code
\*   e:    ADD r0, pc, #9      e+4:  BX r0
\*   e+16: MOV r0, #1          e+18: STR r0, [r1, r2]
\*   e+20: MOV r0, #2          e+22: B e+16
StoreLoop(e) ==
    (e :> DataImm("AL", "ADD", FALSE, 0, 15, 9))
    @@ (e + 4 :> Other("arm_branch_exchange", FALSE, 0, 0, 0))
    @@ (e + 16 :> Other("thumb_alu_immediate", FALSE, 0, 0, 1))
    @@ (e + 18 :> [Other("thumb_load_store_register_offset", FALSE, 0, 2, 0)
                      EXCEPT !.rn = 1])
    @@ (e + 20 :> Other("thumb_alu_immediate", FALSE, 0, 0, 2))
    @@ (e + 22 :> Other("thumb_branch", FALSE, 0, 0, -10))

\* a call through BLX and a skipped instruction
\*   e:    ADD r0, pc, #8      e+4:  BLX r0
\*   e+8:  MOVEQ r1, #1        e+12: B e
\*   e+16: MOV r1, #2          e+20: BX lr
LinkExchange(e) ==
    (e :> DataImm("AL", "ADD", FALSE, 0, 15, 8))
    @@ (e + 4 :> Other("arm_branch_link_exchange_register", FALSE, 0, 0, 0))
    @@ (e + 8 :> DataImm("EQ", "MOV", FALSE, 1, 0, 1))
    @@ (e + 12 :> Other("arm_branch_link", FALSE, 0, 0, -20))
    @@ (e + 16 :> DataImm("AL", "MOV", FALSE, 1, 0, 2))
    @@ (e + 20 :> Other("arm_branch_exchange", FALSE, 0, 14, 0))

\* code that enables interrupts and raises exceptions in both states, with
\* handlers at the vectors of base that return
\*   e:    MSR cpsr_c, #0x1f   e+4:  SWI
\*   e+8:  CLZ r1, r0          e+12: ADD r0, pc, #5
\*   e+16: BX r0
\*   e+24: MOV r0, #1          e+26: SWI          e+28: B e+24
\*   base+4: MOVS pc, lr       base+8: MOVS pc, lr
\*   base+24: SUBS pc, lr, #4
Exceptions(e, base) ==
    (e :> Other("arm_status_store_immediate", FALSE, 0, 0, 31))
    @@ (e + 4 :> Other("arm_software_interrupt", FALSE, 0, 0, 0))
    @@ (e + 8 :> Other("arm_count_leading_zeroes", FALSE, 1, 0, 0))
    @@ (e + 12 :> DataImm("AL", "ADD", FALSE, 0, 15, 5))
    @@ (e + 16 :> Other("arm_branch_exchange", FALSE, 0, 0, 0))
    @@ (e + 24 :> Other("thumb_alu_immediate", FALSE, 0, 0, 1))
    @@ (e + 26 :> Other("thumb_software_interrupt", FALSE, 0, 0, 0))
    @@ (e + 28 :> Other("thumb_branch", FALSE, 0, 0, -8))
    @@ (base + 4 :> DataReg("AL", "MOV", TRUE, 15, 0, 14))
    @@ (base + 8 :> DataReg("AL", "MOV", TRUE, 15, 0, 14))
    @@ (base + 24 :> DataImm("AL", "SUB", TRUE, 15, 14, 4))

\* code that writes banked registers in System, FIQ and IRQ mode and comes
\* back to each, with interrupts disabled
\*   e:    MOV r8, #1          e+4:  MOV r13, #2        e+8:  MOV r14, #3
\*   e+12: MSR cpsr_c, #0xd1   e+16: MOV r8, #4         e+20: MOV r13, #5
\*   e+24: MSR cpsr_c, #0xd2   e+28: MOV r13, #7
\*   e+32: MSR cpsr_c, #0xdf   e+36: MSR cpsr_c, #0xd1  e+40: MSR cpsr_c, #0xd2
ModeTour(e) ==
    (e :> DataImm("AL", "MOV", FALSE, 8, 0, 1))
    @@ (e + 4 :> DataImm("AL", "MOV", FALSE, 13, 0, 2))
    @@ (e + 8 :> DataImm("AL", "MOV", FALSE, 14, 0, 3))
    @@ (e + 12 :> Other("arm_status_store_immediate", FALSE, 0, 0, 209))
    @@ (e + 16 :> DataImm("AL", "MOV", FALSE, 8, 0, 4))
    @@ (e + 20 :> DataImm("AL", "MOV", FALSE, 13, 0, 5))
    @@ (e + 24 :> Other("arm_status_store_immediate", FALSE, 0, 0, 210))
    @@ (e + 28 :> DataImm("AL", "MOV", FALSE, 13, 0, 7))
    @@ (e + 32 :> Other("arm_status_store_immediate", FALSE, 0, 0, 223))
    @@ (e + 36 :> Other("arm_status_store_immediate", FALSE, 0, 0, 209))
    @@ (e + 40 :> Other("arm_status_store_immediate", FALSE, 0, 0, 210))

CodeImages(arch) ==
    {StoreLoop(EntryPoint), LinkExchange(EntryPoint),
     Exceptions(EntryPoint, IF arch = "ARMv5" THEN -65536 ELSE 0),
     ModeTour(EntryPoint)}

\* the CPU that run_frame runs at pc
Running == IF pc = "arm9" THEN "ARMv5" ELSE "ARMv4"

\* the system after reset and direct boot with the code loaded, IME and the
\* VBlank bit of IE set on the CPU that runs
CpuInit ==
    /\ overflow_checks \in BOOLEAN
    /\ program = <<>>
    /\ pc \in {"arm9", "arm7"}
    /\ \E code \in CodeImages(Running) :
          LET s0 == [reset(NewSystem) EXCEPT !.cpu[Running].memory = code,
                                             !.overflow_checks = overflow_checks]
              s == direct_boot(write_ie(write_ime(s0, Running, 1, MASK_WORD),
                                        Running, 1, MASK_WORD),
                               Running, EntryPoint)
          IN  /\ events = s.events
              /\ capacity = s.capacity
              /\ current_time = s.current_time
              /\ infos = s.infos
              /\ vcount = s.vcount
              /\ dispstat = s.dispstat
              /\ irq = s.irq
              /\ cpu = s.cpu
              /\ dma = s.dma
              /\ timer = s.timer
              /\ ipc = s.ipc
              /\ main_memory = s.main_memory
              /\ math_unit = s.math_unit
              /\ cartridge = s.cartridge
              /\ pages = s.pages
              /\ vram = s.vram
              /\ exmemcnt = s.exmemcnt
              /\ panicked = s.panicked
              /\ fired = s.fired
              /\ queued = s.queued
              /\ cancelled = s.cancelled
              /\ io = [s.io EXCEPT !.shared = [r \in 8..12 |-> s.cpu[Running].state.gpr[r]]]
    /\ frame_end = 560190
    /\ cycles = 16
    /\ last = [op |-> "boot"]

\* the video unit raises the VBlank interrupt
CpuRaise ==
    /\ ~panicked
    /\ ~cpu[Running].irq
    /\ Becomes(raise(State, Running, IrqSource.VBlank))
    /\ last' = [op |-> "raise"]
    /\ UNCHANGED <<pc, frame_end, cycles, program>>

\* the pass of Cpu::run takes the interrupt
CpuTakes == cpu[Running].irq /\ ~cpu[Running].state.cpsr.i

\* the exception that the handler of a word enters, if any
ExceptionOf(arch, h) ==
    CASE h \in {"arm_software_interrupt", "thumb_software_interrupt"} -> "swi"
      [] h = "arm_count_leading_zeroes" /\ arch = "ARMv4" -> "und"
      [] OTHER -> "none"

CpuInterrupt ==
    /\ ~panicked
    /\ ~cpu[Running].halted
    /\ CpuTakes
    /\ Becomes(handle_interrupt(State, Running))
    /\ last' = [op |-> "exception", exception |-> "irq", arch |-> Running,
                cpsr |-> cpu[Running].state.cpsr]
    /\ UNCHANGED <<pc, frame_end, cycles, program>>

CpuExecute ==
    LET c == cpu[Running]
        w == c.pipeline[0].word
        entry == run_fetch(State, Running)
        passes == c.state.cpsr.thumb \/ evaluate_cond(State, Running, w.cond)
    IN  /\ ~panicked
        /\ ~c.halted
        /\ ~CpuTakes
        /\ w.h \in (IF c.state.cpsr.thumb THEN ThumbHandlers ELSE ArmHandlers)
        /\ Becomes(run_instruction(State, Running))
        /\ last' = [op |-> IF ~passes THEN "skip"
                           ELSE IF ExceptionOf(Running, w.h) # "none" THEN "exception"
                           ELSE "execute",
                    exception |-> ExceptionOf(Running, w.h), arch |-> Running,
                    cpsr |-> c.state.cpsr,
                    h |-> w.h, from |-> c.pipeline[0].from,
                    r15 |-> entry.cpu[Running].state.gpr[15]]
        /\ UNCHANGED <<pc, frame_end, cycles, program>>

CpuNext ==
    \/ CpuRaise
    \/ CpuInterrupt
    \/ CpuExecute

CpuSpec == CpuInit /\ [][CpuNext]_vars


-----------------------------------------------------------------------------
(* Mode switches on their own, under ModeSpec: from the state after direct  *)
(* boot, the running CPU's mode is switched and its registers are written   *)
(* in any order, up to MaxModeOps operations.                               *)

ModeValues == {Mode[k] : k \in DOMAIN Mode}

\* a write of a live register (R8 and R12, banked in FIQ, or R13, banked in
\* every mode)
ModeSetGpr(r, v) ==
    /\ ~panicked
    /\ io.writes < MaxModeOps
    /\ Becomes([set_gpr(State, Running, r, v) EXCEPT
                    !.io.writes = @ + 1,
                    !.io.shared = IF r \in 8..12 /\ bank(cpu[Running].state.cpsr.mode) # "FIQ"
                                  THEN [@ EXCEPT ![r] = v] ELSE @])
    /\ last' = [op |-> "set_gpr"]
    /\ UNCHANGED <<pc, frame_end, cycles, program>>

\* switch_mode(mode); `before' is the state it was called in, and when the
\* step before was a switch too, `start' is the state that one was called in
\* and `round' says that this switch goes back to the mode of `start'
ModeSwitch(mode) ==
    LET st == cpu[Running].state
        second == last.op = "switch_mode"
    IN  /\ ~panicked
        /\ io.writes < MaxModeOps
        /\ Becomes([switch_mode(State, Running, mode) EXCEPT !.io.writes = @ + 1])
        /\ last' = [op |-> "switch_mode", mode |-> mode, before |-> st,
                    round |-> second /\ last.before.cpsr.mode = mode,
                    start |-> IF second THEN last.before ELSE st]
        /\ UNCHANGED <<pc, frame_end, cycles, program>>

ModeNext ==
    \/ \E r \in {8, 12, 13}, v \in 1..2 : ModeSetGpr(r, v)
    \/ \E mode \in ModeValues : ModeSwitch(mode)

ModeSpec == CpuInit /\ [][ModeNext]_vars


-----------------------------------------------------------------------------
(* A second reset, under ResetSpec: after System::reset the front end calls *)
(* run_frame, the guest writes registers and halts the ARM9 (a frame is     *)
(* then a pass of the scheduler per scanline event), and the front end      *)
(* calls System::reset again, before a frame or after one.                  *)

\* mmio_write of IPCFIFOCNT (halfword) and IPCFIFOSEND by the guest program
GuestIpcFifoCnt ==
    /\ Guest("IPCFIFOCNT")
    /\ Becomes(write_ipcfifocnt(State, program[1].arch, HalfAccess(program[1].val).val,
                                HalfAccess(program[1].val).mask))

GuestIpcFifoSend ==
    /\ Guest("IPCFIFOSEND")
    /\ Becomes(write_ipcfifosend(State, program[1].arch, program[1].val))

\* the ARM9 halts at once; or it first enables the vblank irq in DISPSTAT,
\* the hblank source in IE and IME, enables the FIFOs and sends a word; or it
\* first sets the lyc irq for line 255 (DISPSTAT 0xff20, IE 4), which wakes
\* it near the end of the frame; or it first enables the hblank irq
ResetPrograms ==
    { <<Op("CP15_HALT", "ARMv5", 0, 0)>>,
      <<Op("DISPSTAT", "ARMv5", 0, 8), Op("IE", "ARMv5", 0, 2), Op("IME", "ARMv5", 0, 1),
        Op("IPCFIFOCNT", "ARMv5", 0, 32768), Op("IPCFIFOSEND", "ARMv5", 0, 7),
        Op("CP15_HALT", "ARMv5", 0, 0)>>,
      <<Op("DISPSTAT", "ARMv5", 0, 65312), Op("IE", "ARMv5", 0, 4), Op("IME", "ARMv5", 0, 1),
        Op("CP15_HALT", "ARMv5", 0, 0)>>,
      <<Op("DISPSTAT", "ARMv5", 0, 16), Op("CP15_HALT", "ARMv5", 0, 0)>> }

\* the system after the first System::reset, booted directly
FirstReset == system_direct_boot(reset(NewSystem), EntryPoint, EntryPoint)

ResetInit ==
    /\ overflow_checks \in BOOLEAN
    /\ program \in ResetPrograms
    /\ LET s == [FirstReset EXCEPT !.overflow_checks = overflow_checks]
       IN  /\ events = s.events
           /\ capacity = s.capacity
           /\ current_time = s.current_time
           /\ infos = s.infos
           /\ vcount = s.vcount
           /\ dispstat = s.dispstat
           /\ irq = s.irq
           /\ cpu = s.cpu
           /\ dma = s.dma
           /\ timer = s.timer
           /\ ipc = s.ipc
           /\ main_memory = s.main_memory
           /\ math_unit = s.math_unit
           /\ cartridge = s.cartridge
           /\ pages = s.pages
           /\ vram = s.vram
           /\ exmemcnt = s.exmemcnt
           /\ panicked = s.panicked
           /\ fired = s.fired
           /\ queued = s.queued
           /\ cancelled = s.cancelled
           /\ io = s.io
    /\ pc = "out"
    /\ frame_end = 0
    /\ cycles = 0
    /\ last = [op |-> "reset"]

\* the head of run_frame's loop; the guest has made its writes by
\* MaxGuestTime
ResetFrameQuery ==
    /\ program # <<>> => current_time < MaxGuestTime
    /\ RunFrameQueryUntil(IF cpu["ARMv5"].halted \/ program # <<>>
                          THEN MaxResetTime ELSE MaxAwakeTime)

\* the front end calls System::reset again; `time' is the scheduler's time
\* at the call
SystemReset ==
    /\ ~panicked
    /\ pc = "out"
    /\ Becomes(system_direct_boot(reset(State), EntryPoint, EntryPoint))
    /\ last' = [op |-> "reset_again", time |-> current_time]
    /\ UNCHANGED <<pc, frame_end, cycles, program>>

ResetNext ==
    \/ /\ last.op # "reset_again"
       /\ \/ RunFrameEnter
          \/ ResetFrameQuery
          \/ RunArm7
          \/ \E uaf \in UafOutcomes : RunFrameAdvance(uaf)
          \/ WriteDispstat
          \/ WriteIme
          \/ WriteIe
          \/ GuestIpcFifoCnt
          \/ GuestIpcFifoSend
          \/ Cp15Halt
    \/ /\ last.op # "reset_again"
       /\ SystemReset

ResetSpec == ResetInit /\ [][ResetNext]_vars

-----------------------------------------------------------------------------
(* Masked register writes: the two CPUs write EXMEMCNT, IME and IPCFIFOCNT  *)
(* with accesses of different widths, and use the FIFOs in between.        *)

\* the halfword written to the high half of a 32-bit register
HighAccess(val) == [val |-> val * 65536, mask |-> [hi |-> 65535, lo |-> 0]]

\* mmio_write of EXMEMCNT (ARM9 only): 0, and the slot owner bits 7 and 11
ExmemcntWrites == {HalfAccess(0), HalfAccess(128), HalfAccess(2048)}

MaskedWriteExmemcnt(w) ==
    /\ ~panicked
    /\ io.writes < MaxIrqOps
    /\ Becomes([write_exmemcnt(State, w.val, w.mask) EXCEPT !.io.writes = @ + 1])
    /\ last' = [op |-> "write_exmemcnt", arch |-> "ARMv5", val |-> w.val, mask |-> w.mask]
    /\ UNCHANGED <<pc, frame_end, cycles, program>>

\* mmio_write of IME: the words 1 and 0, and the halfword 0 written to the
\* high half of the register
ImeWrites == {WordAccess(1), WordAccess(0), HighAccess(0)}

MaskedWriteIme(arch, w) ==
    /\ ~panicked
    /\ io.writes < MaxIrqOps
    /\ Becomes([write_ime(State, arch, w.val, w.mask) EXCEPT !.io.writes = @ + 1])
    /\ last' = [op |-> "write_ime", arch |-> arch, val |-> w.val, mask |-> w.mask]
    /\ UNCHANGED <<pc, frame_end, cycles, program>>

\* mmio_write of IPCFIFOCNT: the FIFOs enabled (halfword), the byte 0x40
\* written to the low byte and the byte 0x08 written to the high byte
MaskedCntWrites == {HalfAccess(32768), ByteAccess(64, 0), ByteAccess(8, 1)}

MaskedWriteFifoCnt(arch, w) ==
    /\ ~panicked
    /\ io.writes < MaxIrqOps
    /\ Becomes([write_ipcfifocnt(State, arch, w.val, w.mask) EXCEPT
                    !.io.writes = @ + 1,
                    !.io.unread[arch] = IF Bit(w.val, 3) = 1 THEN <<>> ELSE @])
    /\ last' = [op |-> "write_ipcfifocnt", arch |-> arch, val |-> w.val, mask |-> w.mask]
    /\ UNCHANGED <<pc, frame_end, cycles, program>>

MaskedNext ==
    \/ \E w \in ExmemcntWrites : MaskedWriteExmemcnt(w)
    \/ \E arch \in Arch, w \in ImeWrites : MaskedWriteIme(arch, w)
    \/ \E arch \in Arch, w \in MaskedCntWrites : MaskedWriteFifoCnt(arch, w)
    \/ \E arch \in Arch : IpcSend(arch)
    \/ \E arch \in Arch : IpcRecv(arch)

MaskedSpec == IpcInit({"none"}) /\ [][MaskedNext]_vars

-----------------------------------------------------------------------------
(* The ARM9 assigns VRAM banks and writes VRAM, and both CPUs read it.     *)

\* the bytes written to the VRAMCNT registers, as (bank, value): bank A
\* to LCDC, to the first and the second 128K of BG A, and disabled; bank C
\* to the ARM7 and with mst 5; bank E to the start of BG A; bank F to BG A
\* and to the texture palette, both with offset 2
VramCntWrites ==
    {<<0, 128>>, <<0, 129>>, <<0, 137>>, <<0, 0>>, <<2, 130>>, <<2, 133>>, <<4, 129>>,
     <<5, 133>>, <<5, 145>>, <<5, 147>>}

\* 0x06000000 and 0x06020004 (BG A), 0x06800004 (LCDC), and 0x06080000
\* (BG A, behind its 512K)
VramAddrs == {100663296, 100794372, 109051908, 101187584}

VramOp(s, record) ==
    /\ ~panicked
    /\ io.writes < MaxVramOps
    /\ Becomes([s EXCEPT !.io.writes = @ + 1])
    /\ last' = record
    /\ UNCHANGED <<pc, frame_end, cycles, program>>

\* mmio_write of a byte of VRAMCNT
VramWriteCnt(index, val) ==
    VramOp(write_vramcnt(State, index, val),
           [op |-> "write_vramcnt", index |-> index, val |-> val])

\* write_half of the ARM9 to 0x06xxxxxx: the n-th access writes n
VramWrite(addr) ==
    VramOp(vram_write(State, addr, io.writes + 1),
           [op |-> "vram_write", addr |-> addr, val |-> io.writes + 1])

\* read_word of a CPU from 0x06xxxxxx
VramRead(arch, addr) ==
    LET r == vram_read(State, arch, addr)
    IN  VramOp(IF r.panic THEN panic(State) ELSE State,
               [op |-> "vram_read", arch |-> arch, addr |-> addr, data |-> r.data])

VramNext ==
    \/ \E w \in VramCntWrites : VramWriteCnt(w[1], w[2])
    \/ \E addr \in VramAddrs : VramWrite(addr)
    \/ \E arch \in Arch, addr \in VramAddrs : VramRead(arch, addr)

VramSpec == IpcInit({"none"}) /\ [][VramNext]_vars

-----------------------------------------------------------------------------
(* The page tables: the mappings of the two memory routers, made in any    *)
(* order on the tables as constructed, and lookups in between.             *)

Mapping(base, end, buffer, offset, mask, attributes) ==
    [base |-> base, end |-> end, ptr |-> [buffer |-> buffer, offset |-> offset],
     mask |-> mask, attributes |-> attributes]

\* Arm7Memory::reset and update_wram_mapping, Arm9Memory::reset and
\* update_wram_mapping (0xffff0000 is -65536)
Mappings ==
    [ARMv4 |->
        {Mapping(0, 16777216, "bios7", 0, 16383, "Read"),
         Mapping(33554432, 50331648, "main_memory", 0, 4194303, "ReadWrite"),
         Mapping(50331648, 58720256, "arm7_wram", 0, 65535, "ReadWrite"),
         Mapping(50331648, 58720256, "shared_wram", 0, 16383, "ReadWrite"),
         Mapping(50331648, 58720256, "shared_wram", 16384, 16383, "ReadWrite"),
         Mapping(50331648, 58720256, "shared_wram", 0, 32767, "ReadWrite"),
         Mapping(58720256, 67108864, "arm7_wram", 0, 65535, "ReadWrite")},
     ARMv5 |->
        {Mapping(-65536, -32768, "bios9", 0, 32767, "Read"),
         Mapping(33554432, 50331648, "main_memory", 0, 4194303, "ReadWrite"),
         Mapping(50331648, 67108864, "shared_wram", 0, 32767, "ReadWrite"),
         Mapping(50331648, 67108864, "shared_wram", 16384, 16383, "ReadWrite"),
         Mapping(50331648, 67108864, "shared_wram", 0, 16383, "ReadWrite")}]

\* 0xffff4004, 0x00000004, 0x02004004, 0x03004008 and 0x03800000
LookupAddrs == {-49148, 4, 33570820, 50348040, 58720256}

PageOp(s, record) ==
    /\ ~panicked
    /\ io.writes < MaxPageOps
    /\ Becomes([s EXCEPT !.io.writes = @ + 1])
    /\ last' = record
    /\ UNCHANGED <<pc, frame_end, cycles, program>>

PageMap(arch, m) ==
    PageOp(map(State, arch, m.base, m.end, m.ptr, m.mask, m.attributes),
           [op |-> "map", arch |-> arch, base |-> m.base, end |-> m.end, ptr |-> m.ptr,
            mask |-> m.mask, attributes |-> m.attributes])

\* update_wram_mapping of the ARM9 with WRAMCNT = 3
PageUnmap ==
    PageOp(unmap(State, "ARMv5", 50331648, 67108864, "ReadWrite"),
           [op |-> "unmap", arch |-> "ARMv5", base |-> 50331648, end |-> 67108864,
            attributes |-> "ReadWrite"])

\* the lookups of a read and of a write of a CPU at an address
PageLookup(arch, addr) ==
    PageOp(State,
           [op |-> "lookup", arch |-> arch, addr |-> addr,
            read |-> read_pointer(State, arch, addr),
            write |-> write_pointer(State, arch, addr)])

PageNext ==
    \/ \E arch \in Arch : \E m \in Mappings[arch] : PageMap(arch, m)
    \/ PageUnmap
    \/ \E arch \in Arch, addr \in LookupAddrs : PageLookup(arch, addr)

PageSpec == IpcInit({"none"}) /\ [][PageNext]_vars

-----------------------------------------------------------------------------
(* The cartridge: a client writes AUXSPICNT, the command buffer and ROMCTRL *)
(* and reads the data port, and the ARM9 writes EXMEMCNT.                  *)

CartOp(s, record) ==
    /\ ~panicked
    /\ io.writes < MaxCartOps
    /\ Becomes([s EXCEPT !.io.writes = @ + 1])
    /\ last' = record
    /\ UNCHANGED <<pc, frame_end, cycles, program>>

\* the transfer-ready irq enabled and disabled, with the slot enabled
AuxSpiCntWrites == {HalfAccess(49152), HalfAccess(32768)}

CartWriteAuxSpiCnt(w) ==
    CartOp(write_auxspicnt(State, w.val, w.mask), [op |-> "write_auxspicnt", val |-> w.val])

\* the ARM9 writes the halfword 0 to EXMEMCNT
CartWriteExmemcnt ==
    CartOp(write_exmemcnt(State, 0, 65535), [op |-> "write_exmemcnt"])

\* the bytes of a command, in the order they are written to the command
\* buffer: the opcode first
CommandBytes(opcode, third) ==
    [i \in 0..7 |-> IF i = 0 THEN opcode ELSE IF i = 3 THEN third ELSE 0]

\* read data from 0x8000, get the first id, dummy
CartCommands == {CommandBytes(183, 128), CommandBytes(144, 0), CommandBytes(159, 0)}

CartWriteCommand(bytes) ==
    CartOp(write_command_buffer(State, bytes, [i \in 0..7 |-> 255]),
           [op |-> "write_command_buffer", opcode |-> bytes[0]])

\* block start with block size 7 (4 bytes) and 1 (512 bytes), and 0
RomCtrlWrites == {[hi |-> 34560, lo |-> 0], [hi |-> 33024, lo |-> 0], [hi |-> 0, lo |-> 0]}

CartWriteRomCtrl(val) ==
    CartOp(write_romctrl(State, val, MASK_WORD), [op |-> "write_romctrl", val |-> val])

CartReadData ==
    CartOp(read_data(State).s,
           [op |-> "read_data", data |-> read_data(State).data,
            before |-> [cartridge |-> cartridge, irf |-> [a \in Arch |-> irq[a].irf]]])

CartNext ==
    \/ \E w \in AuxSpiCntWrites : CartWriteAuxSpiCnt(w)
    \/ CartWriteExmemcnt
    \/ \E bytes \in CartCommands : CartWriteCommand(bytes)
    \/ \E val \in RomCtrlWrites : CartWriteRomCtrl(val)
    \/ CartReadData

CartSpec == IpcInit({"none"}) /\ [][CartNext]_vars


-----------------------------------------------------------------------------
(* Claims about the scheduler, under SchedSpec.                             *)

FiredSeqs == {fired[i].seq : i \in 1..Len(fired)}

Sorted(evs) == \A i, j \in 1..Len(evs) : i < j => evs[i].time <= evs[j].time

\* C1: callbacks are invoked in non-decreasing fire-time order, each queued
\* event's callback is invoked at most once, and once run() has returned every
\* queued event whose fire time has been reached and that was not cancelled
\* has been invoked.
C1_FiresInOrderOnce ==
    /\ Sorted(fired)
    /\ \A i, j \in 1..Len(fired) : i # j => fired[i].seq # fired[j].seq
    /\ (last.op = "run" /\ ~panicked) =>
           \A e \in queued : (e.time <= current_time /\ e.seq \notin cancelled)
                                 => e.seq \in FiredSeqs

\* C2: after every add_event call, whatever the queue and the delay, the call
\* has returned normally and the queue is sorted ascending by fire time.
C2_AddEventReturnsSorted ==
    last.op = "add_event" => (~panicked /\ Sorted(events))

\* C3: an event that a callback schedules inside run() with a fire time at or
\* before current_time has had its callback invoked when that run() returns.
C3_ReentrantDueEventFires ==
    (last.op = "run" /\ ~panicked) =>
        \A e \in queued : (e.seq > last.queued_before /\ e.time <= current_time)
                              => \E i \in (last.fired_before + 1)..Len(fired) : fired[i].seq = e.seq

\* C4: two events queued with the same fire time have their callbacks invoked
\* in the order in which they were added.
C4_TiesInInsertionOrder ==
    \A i, j \in 1..Len(fired) :
        (i < j /\ fired[i].time = fired[j].time) => fired[i].seq <= fired[j].seq
-----------------------------------------------------------------------------
(* Claims about the running system, under SysSpec.                         *)

ScanlineNames == {"Scanline Start", "Scanline End"}

\* the callback of the named event ran in the last step of run_frame
FiredInLastStep(name) ==
    /\ last.op = "advance"
    /\ \E k \in (last.fired_before + 1)..Len(fired) : infos[fired[k].id + 1] = name

\* the events queued for the named callback, and those of them due at time t
PendingOf(name) == {i \in 1..Len(events) : infos[events[i].id + 1] = name}

PendingAt(name, t) == {i \in PendingOf(name) : events[i].time = t}

\* C5: whenever run_frame is about to query the next event time, the queue
\* holds a scanline start or scanline end event whose fire time is greater
\* than current_time (so the queue is not empty).
C5_ScanlineEventPending ==
    (pc = "loop" /\ ~panicked /\ current_time < frame_end) =>
        \E i \in 1..Len(events) :
            /\ infos[events[i].id + 1] \in ScanlineNames
            /\ events[i].time > current_time

\* run_frame is back at its query after a step in which a scanline ended
C5_QueryAfterScanline ==
    /\ pc = "loop"
    /\ ~panicked
    /\ current_time < frame_end
    /\ FiredInLastStep("Scanline End")
    /\ Len(fired) >= 2

\* the channel is set up as the immediate-transfer scenario: source
\* 0x02000000, destination 0x02100000, length 0x10, words, immediate, no repeat
ImmediateScenario(arch, id) ==
    /\ dma[arch][id].source = 33554432
    /\ dma[arch][id].destination = 35651584
    /\ dma[arch][id].length = 16
    /\ DmaControl(dma[arch][id].control).transfer_words
    /\ DmaControl(dma[arch][id].control).timing = DmaTiming.Immediate
    /\ ~DmaControl(dma[arch][id].control).repeat

\* the n words at destination equal the n words at source
Copied(arch, source, destination, n) ==
    \A w \in 0..(n - 1) :
        read_word(State, arch, destination + 4 * w) = read_word(State, arch, source + 4 * w)

\* C6: in the immediate-transfer scenario, the control write that enables
\* the channel returns with the transfer event queued one cycle ahead, and
\* once that event's callback has run the 16 destination words equal the 16
\* source words and the enable bit reads 0.
C6_ImmediateDmaCopies ==
    \A arch \in Arch, id \in 0..3 :
        /\ (/\ last.op = "write"
            /\ last.w = Op("DMA_CONTROL", arch, id, last.w.val)
            /\ DmaControl(last.w.val).enable
            /\ ImmediateScenario(arch, id))
           => (/\ ~panicked
               /\ PendingAt(DmaEventNames[arch][id + 1], current_time + 1) # {})
        /\ (FiredInLastStep(DmaEventNames[arch][id + 1]) /\ ImmediateScenario(arch, id))
           => (/\ ~panicked
               /\ Copied(arch, 33554432, 35651584, 16)
               /\ ~DmaControl(dma[arch][id].control).enable)

\* the trigger occurred in the last step of run_frame: vblank when the
\* scanline that ended brought vcount to 192, hblank when a scanline of the
\* display started, start-of-display on lines 2..193
TriggerOccurred(timing) ==
    \/ timing = DmaTiming.VBlank /\ FiredInLastStep("Scanline End") /\ vcount = 192
    \/ timing = DmaTiming.HBlank /\ FiredInLastStep("Scanline Start") /\ vcount < 192
    \/ timing = DmaTiming.StartOfDisplay /\ FiredInLastStep("Scanline Start")
           /\ vcount > 1 /\ vcount < 194

\* C7: when a timing trigger has occurred, every enabled channel of either
\* CPU configured for that timing has exactly one transfer event queued one
\* cycle ahead, and no channel ever has two transfer events queued.
C7_TriggerSchedulesOnce ==
    ~panicked =>
        \A arch \in Arch, id \in 0..3 :
            /\ Cardinality(PendingOf(DmaEventNames[arch][id + 1])) <= 1
            /\ \A timing \in {DmaTiming.VBlank, DmaTiming.HBlank, DmaTiming.StartOfDisplay} :
                   (/\ TriggerOccurred(timing)
                    /\ DmaControl(dma[arch][id].control).enable
                    /\ channel_timing(arch, dma[arch][id].control) = timing
                    /\ (arch = "ARMv5" \/ timing = DmaTiming.VBlank))
                   => Cardinality(PendingAt(DmaEventNames[arch][id + 1], current_time + 1)) = 1

\* C8: when the transfer callback of a channel whose control has the irq bit
\* set has run, it has returned normally and the channel's DMA bit is set in
\* the IF register of the CPU that owns the channel.
C8_DmaIrqRaised ==
    \A arch \in Arch, id \in 0..3 :
        (FiredInLastStep(DmaEventNames[arch][id + 1]) /\ DmaControl(dma[arch][id].control).irq)
        => (~panicked /\ Bit(irq[arch].irf, IrqSource.DMA0 + id) = 1)

\* C9: when the transfer callback of a channel has run (here: of a channel
\* whose irq bit is clear), it has returned normally and the channel's enable
\* bit is 1 exactly when repeat is set and the timing is not immediate.
C9_EnableAfterTransfer ==
    \A arch \in Arch, id \in 0..3 :
        (FiredInLastStep(DmaEventNames[arch][id + 1]) /\ ~DmaControl(dma[arch][id].control).irq)
        => (/\ ~panicked
            /\ DmaControl(dma[arch][id].control).enable
               <=> (/\ DmaControl(dma[arch][id].control).repeat
                    /\ DmaControl(dma[arch][id].control).timing # DmaTiming.Immediate))

\* timer 0 runs with prescaler 0 and reload 0xFFFF, timer 1 counts up
TimerChain(arch) ==
    /\ TimerControl(timer[arch][0].control).start
    /\ TimerControl(timer[arch][0].control).prescaler = 0
    /\ timer[arch][0].reload_value = 65535
    /\ TimerControl(timer[arch][1].control).start
    /\ TimerControl(timer[arch][1].control).count_up

\* C10: once timer 0 has been started with prescaler 0 and reload 0xFFFF and
\* timer 1 with count_up, the emulator keeps running, and when 0x10000 cycles
\* have passed since timer 0 started, the counter of timer 1 is 1.
C10_TimerChainCounts ==
    \A arch \in Arch :
        TimerChain(arch)
        => (/\ ~panicked
            /\ current_time >= timer[arch][0].activation_timestamp + 65536
               => timer[arch][1].counter = 1)


\* the timer channels of arch whose overflow event fired in the step
OverflowsFired(arch) ==
    {i \in 0..3 : \E k \in (Len(fired) + 1)..Len(fired') :
                      infos[fired'[k].id + 1] = TimerEventNames[arch][i + 1]}

\* the overflow of channel i reaches channel j > i: every channel from i + 1
\* to j counts up and is started, and every one before j was at 0xFFFF
RECURSIVE Reached(_, _, _)
Reached(t, i, j) ==
    /\ TimerControl(t[j].control).count_up
    /\ TimerControl(t[j].control).start
    /\ j > i + 1 => (Reached(t, i, j - 1) /\ t[j - 1].counter + 1 = 65536)

\* C11: when the overflow event of timer channel i fires, channel i + 1, if
\* it has count_up and start set, has its counter increased by exactly 1; if
\* that takes the counter to 0x10000 the channel overflows in turn (counter
\* reloaded, its irq raised if enabled, the next channel incremented in the
\* same way); every channel the chain does not reach, and every channel
\* behind an overflow of channel 3, is left as it was.
C11_TimerCascade ==
    [][\A arch \in Arch, i \in 0..3 :
          (last'.op = "advance" /\ ~panicked' /\ OverflowsFired(arch) = {i}) =>
              /\ timer'[arch][i].counter = timer[arch][i].reload_value
              /\ \A j \in 0..3 :
                    IF j > i /\ Reached(timer[arch], i, j)
                    THEN IF timer[arch][j].counter + 1 = 65536
                         THEN /\ timer'[arch][j].counter = timer[arch][j].reload_value
                              /\ TimerControl(timer[arch][j].control).irq
                                 => Bit(irq'[arch].irf, IrqSource.Timer0 + j) = 1
                         ELSE timer'[arch][j].counter = timer[arch][j].counter + 1
                    ELSE j # i => timer'[arch][j] = timer[arch][j]]_vars

\* the overflow of timer 0 has just run through the chain: timers 1 and 2
\* count up and were reloaded, and the irq of timer 1 is pending
C11_ChainOverflowed ==
    /\ FiredInLastStep(TimerEventNames["ARMv5"][1])
    /\ ~panicked
    /\ \A j \in 1..3 : /\ TimerControl(timer["ARMv5"][j].control).count_up
                       /\ TimerControl(timer["ARMv5"][j].control).start
                       /\ timer["ARMv5"][j].counter = 65535
    /\ Bit(irq["ARMv5"].irf, IrqSource.Timer1) = 1

-----------------------------------------------------------------------------
(* Claims about the interrupt controllers and IPCSYNC, under IrqSpec.      *)

\* the operations that can raise an interrupt
RaisingOps == {"write_ipcsync", "write_ipcfifocnt", "write_ipcfifosend", "read_ipcfiforecv"}

\* C12: after every operation of an interrupt controller (raise, a write to
\* IME, IE or IF) the irq line of its CPU is IME and (some source is both
\* enabled in IE and pending in IF).
C12_IrqLineFollows ==
    \A arch \in Arch :
        cpu[arch].irq <=>
            (irq[arch].ime /\ \E n \in 0..30 : Bit(irq[arch].ie, n) = 1
                                               /\ Bit(irq[arch].irf, n) = 1)

\* an IPC access has just raised a source that brought the line up
C12_LineRaised ==
    /\ last.op \in RaisingOps
    /\ \E arch \in Arch : cpu[arch].irq /\ irq[arch].ime /\ irq[arch].irf # 0

\* bit n of a 32-bit mask [hi, lo]
MaskBit(mask, n) == IF n < 16 THEN Bit(mask.lo, n) ELSE Bit(mask.hi, n - 16)

\* C13: a write of v to IF through the byte mask m leaves IF = old IF and
\* not (v and m): a bit that is 1 in v and in m is clear afterwards, every
\* other bit is as it was (so no bit is ever set).
C13_IfWriteClears ==
    last.op = "write_irf" =>
        \A n \in 0..30 :
            Bit(irq[last.arch].irf, n) =
                (IF Bit(last.val, n) = 1 /\ MaskBit(last.mask, n) = 1
                 THEN 0 ELSE Bit(last.before, n))

\* an IF write has cleared one pending source and left another pending
C13_OneSourceCleared ==
    /\ last.op = "write_irf"
    /\ irq[last.arch].irf # last.before
    /\ irq[last.arch].irf # 0

\* C18: after an IPCSYNC write by one CPU, the input field of the other
\* CPU's IPCSYNC equals the output field of the writer's, and if the
\* writer's send-irq bit and the other CPU's irq-enable bit are both set,
\* IPCSync is pending in the other CPU's IF.
C18_SyncMirrored ==
    last.op = "write_ipcsync" =>
        LET tx == IpcSync(ipc.ipcsync[last.arch])
            rx == IpcSync(ipc.ipcsync[Not(last.arch)])
        IN  /\ rx.input = tx.output
            /\ (tx.send_irq /\ rx.enable_irq)
               => Bit(irq[Not(last.arch)].irf, IrqSource.IPCSync) = 1

\* the ARM9 has written output 0xA with the send irq, the ARM7 had the irq
\* enabled: the ARM7 reads input 0xA and has IPCSync pending
C18_SyncExample ==
    /\ last.op = "write_ipcsync"
    /\ last.arch = "ARMv5"
    /\ IpcSync(ipc.ipcsync["ARMv4"]).input = 10
    /\ IpcSync(ipc.ipcsync["ARMv4"]).enable_irq
    /\ Bit(irq["ARMv4"].irf, IrqSource.IPCSync) = 1

-----------------------------------------------------------------------------
(* Claims about the IPC FIFOs, under IpcSpec.                              *)

Enabled(arch) == IpcFifoCnt(ipc.ipcfifocnt[arch]).enable_fifos

\* the step is an IPCFIFOSEND write, an IPCFIFORECV read of arch
SendStep(arch) == last'.op = "write_ipcfifosend" /\ last'.arch = arch

RecvStep(arch) == last'.op = "read_ipcfiforecv" /\ last'.arch = arch

\* C14: with the FIFOs of both CPUs enabled, every word one CPU writes to
\* IPCFIFOSEND while fewer than 16 are waiting is added to the FIFO, and
\* every IPCFIFORECV read of the other CPU returns the oldest waiting word
\* and takes it out: k <= 16 writes followed by k reads return the k words
\* in the order written and leave the FIFO empty.
C14_FifoOrder ==
    [][\A arch \in Arch :
          (Enabled(arch) /\ Enabled(Not(arch))) =>
              /\ (SendStep(arch) /\ Len(io.unread[arch]) < FifoSize)
                 => ipc'.fifo[arch].items = Len(io.unread[arch]) + 1
              /\ (RecvStep(arch) /\ io.unread[Not(arch)] # <<>>)
                 => /\ io'.returned[arch] = Head(io.unread[Not(arch)])
                    /\ ipc'.fifo[Not(arch)].items = Len(io.unread[Not(arch)]) - 1]_vars

\* the ARM7 has read the 16th word of the ARM9, and the FIFO is empty
C14_SixteenReturned ==
    /\ last.op = "read_ipcfiforecv"
    /\ last.arch = "ARMv4"
    /\ io.sends["ARMv5"] = FifoSize
    /\ io.returned["ARMv4"] = SendWord("ARMv5", FifoSize - 1)
    /\ io.unread["ARMv5"] = <<>>
    /\ ipc.fifo["ARMv5"].items = 0

\* C15: each FIFO holds between 0 and 16 words, and the sender's
\* send_empty / send_full bits and the receiver's recv_empty / recv_full
\* bits are (length = 0) / (length = 16).
C15_FlagsFollowLength ==
    \A arch \in Arch :
        LET n == ipc.fifo[arch].items
            tx == IpcFifoCnt(ipc.ipcfifocnt[arch])
            rx == IpcFifoCnt(ipc.ipcfifocnt[Not(arch)])
        IN  /\ n \in 0..16
            /\ tx.send_fifo_empty <=> n = 0
            /\ rx.receive_fifo_empty <=> n = 0
            /\ tx.send_fifo_full <=> n = 16
            /\ rx.receive_fifo_full <=> n = 16

\* the FIFO of the ARM9 is full
C15_FifoFull ==
    /\ ipc.fifo["ARMv5"].items = 16
    /\ IpcFifoCnt(ipc.ipcfifocnt["ARMv5"]).send_fifo_full
    /\ IpcFifoCnt(ipc.ipcfifocnt["ARMv4"]).receive_fifo_full

\* an IPCFIFORECV read of arch from an empty FIFO: the FIFO is left as it
\* was, the error bit of arch is set, the word returned is the one the
\* last read of arch returned
EmptyReadFails(arch) ==
    (RecvStep(arch) /\ ipc.fifo[Not(arch)].items = 0) =>
        /\ ipc'.fifo[Not(arch)] = ipc.fifo[Not(arch)]
        /\ IpcFifoCnt(ipc'.ipcfifocnt[arch]).error
        /\ io.returned[arch] # -1 => io'.returned[arch] = io.returned[arch]

\* an IPCFIFOSEND write of arch to its full FIFO: the FIFO is left as it
\* was, the error bit of arch is set
FullSendFails(arch) ==
    /\ ipc'.fifo[arch] = ipc.fifo[arch]
    /\ IpcFifoCnt(ipc'.ipcfifocnt[arch]).error

\* C16, as stated: a read from an empty FIFO and a write to a FIFO that
\* holds 16 words each leave the FIFO unchanged and set the error bit of
\* the acting CPU; the empty read returns the word last returned.
C16_ErrorOnEmptyAndFull ==
    [][\A arch \in Arch :
          /\ EmptyReadFails(arch)
          /\ (SendStep(arch) /\ ipc.fifo[arch].items = 16) => FullSendFails(arch)]_vars

\* C16, amended: the write to a full FIFO sets the error bit when the
\* writer's FIFOs are enabled.
C16_ErrorOnEmptyAndFullEnabled ==
    [][\A arch \in Arch :
          /\ EmptyReadFails(arch)
          /\ (SendStep(arch) /\ ipc.fifo[arch].items = 16 /\ Enabled(arch))
             => FullSendFails(arch)]_vars

\* the ARM9 has written to its full FIFO, and the ARM7 has read a word
\* before: the error bit of the ARM9 is set, the FIFO still holds 16 words
C16_SendToFull ==
    /\ last.op = "write_ipcfifosend"
    /\ last.arch = "ARMv5"
    /\ Enabled("ARMv5")
    /\ ipc.fifo["ARMv5"].items = 16
    /\ Len(io.unread["ARMv5"]) = 16
    /\ IpcFifoCnt(ipc.ipcfifocnt["ARMv5"]).error
    /\ io.returned["ARMv4"] > 0

\* the step is an IPCFIFOCNT write of arch with 1 in bit 14
AckStep(arch) ==
    /\ last'.op = "write_ipcfifocnt"
    /\ last'.arch = arch
    /\ Bit(last'.val, 14) = 1
    /\ Bit(last'.mask, 14) = 1

\* C17: the error bit of a CPU, once set, stays set over every send,
\* receive and IPCFIFOCNT write of either CPU, except an IPCFIFOCNT write of
\* that CPU with 1 in bit 14, and that write clears it.
C17_ErrorSticky ==
    [][\A arch \in Arch :
          IF AckStep(arch)
          THEN ~IpcFifoCnt(ipc'.ipcfifocnt[arch]).error
          ELSE IpcFifoCnt(ipc.ipcfifocnt[arch]).error
               => IpcFifoCnt(ipc'.ipcfifocnt[arch]).error]_vars

-----------------------------------------------------------------------------
(* Claims about the interpreter, under CpuSpec.                            *)

\* a handler was entered in the last step
Entered == last.op \in {"execute", "exception"} /\ last.exception # "irq"

\* C19: at the entry of every instruction handler, R15 is the address the
\* instruction was fetched from plus 8 in 32-bit state and plus 4 in 16-bit
\* state, whatever was executed before.
C19_PcAheadOfInstruction ==
    Entered => last.r15 = last.from + (IF last.cpsr.thumb THEN 4 ELSE 8)

\* where an exception goes: the bank of its SPSR, its mode, the offset of
\* its vector
ExceptionTarget ==
    [irq |-> [bank |-> "IRQ", mode |-> Mode.Irq, offset |-> 24],
     swi |-> [bank |-> "SVC", mode |-> Mode.Supervisor, offset |-> 8],
     und |-> [bank |-> "UND", mode |-> Mode.Undefined, offset |-> 4]]

\* C20: after the entry into an exception (IRQ, software interrupt in 32-bit
\* or 16-bit state, undefined instruction) the emulator runs on with the
\* Thumb bit clear and I set in CPSR, in the mode of the exception, with the
\* CPSR from before the entry in the SPSR of that mode's bank, and with the
\* pipeline filled in 32-bit state from the exception vector.
C20_ExceptionEntry ==
    last.op = "exception"
    => LET c == cpu[last.arch]
           e == ExceptionTarget[last.exception]
           vector == get_exception_base(State, last.arch) + e.offset
       IN  /\ ~panicked
           /\ ~c.state.cpsr.thumb
           /\ c.state.cpsr.i
           /\ c.state.cpsr.mode = e.mode
           /\ c.state.spsr_banked[e.bank] = last.cpsr
           /\ c.state.gpr[15] = vector + 8
           /\ c.pipeline[0].from = vector
           /\ c.pipeline[1].from = vector + 4

-----------------------------------------------------------------------------
(* Claims about mode switches, under ModeSpec.                              *)

\* C21: for a CPU in mode A and any mode B, switch_mode(B) followed by
\* switch_mode(A) leaves R0-R15, CPSR and the selection of the active SPSR
\* as they were before the first switch.
C21_SwitchModeRoundTrip ==
    (last.op = "switch_mode" /\ last.round)
    => LET st == cpu[Running].state
       IN  /\ st.gpr = last.start.gpr
           /\ st.cpsr = last.start.cpsr
           /\ st.spsr = last.start.spsr

\* the same, for the registers and CPSR alone
RegistersRoundTrip ==
    (last.op = "switch_mode" /\ last.round)
    => LET st == cpu[Running].state
       IN  st.gpr = last.start.gpr /\ st.cpsr = last.start.cpsr

\* the same, from the states in which the SPSR selection is that of the mode
SelectedRoundTrip ==
    (last.op = "switch_mode" /\ last.round
        /\ last.start.spsr = (IF bank(last.start.cpsr.mode) # "USR"
                              THEN bank(last.start.cpsr.mode) ELSE "CPSR"))
    => cpu[Running].state.spsr = last.start.spsr

-----------------------------------------------------------------------------
(* Claims about the banked registers, under CpuSpec.                        *)

\* the stack pointers direct boot leaves: of System mode in the live R13, of
\* IRQ and Supervisor mode in their banks
BootBanks ==
    LET st == cpu[Running].state
    IN  /\ st.cpsr.mode = Mode.System
        /\ st.gpr[13] = (IF Running = "ARMv5" THEN 50343804 ELSE 58785152)
        /\ st.gpr_banked["IRQ"][5] = (IF Running = "ARMv5" THEN 50347904 ELSE 58785664)
        /\ st.gpr_banked["SVC"][5] = (IF Running = "ARMv5" THEN 50347968 ELSE 58785728)

\* a pass of Cpu::run that goes from a mode of bank a to a mode of bank b
\* stores the live banked registers in bank a and loads those of bank b
\* (R14 excepted on an exception entry, which writes the return address),
\* and no pass touches the storage of a bank other than the current one
BankSwapped ==
    LET st == cpu[Running].state
        next == cpu'[Running].state
        a == bank(st.cpsr.mode)
        b == bank(next.cpsr.mode)
        live == IF a = "FIQ" \/ b = "FIQ" THEN 0..6 ELSE 5..6
    IN  /\ \A c \in Bank \ {a} : next.gpr_banked[c] = st.gpr_banked[c]
        /\ a # b
           => /\ \A i \in live : next.gpr_banked[a][i] = st.gpr[i + 8]
              /\ \A i \in (IF b = "FIQ" THEN 0..5 ELSE {5}) :
                    next.gpr[i + 8] = st.gpr_banked[b][i]
              /\ last'.op # "exception" => next.gpr[14] = st.gpr_banked[b][6]

-----------------------------------------------------------------------------
(* Claims about the video unit, under SysSpec.                              *)

\* C23: vcount is in 0..262 in every state (it goes back to 0 after 262),
\* and after every scanline end the vblank flag of both DISPSTAT registers
\* is set exactly when 192 <= vcount < 262.
C23_VcountAndVblank ==
    /\ vcount \in 0..262
    /\ (FiredInLastStep("Scanline End") /\ ~panicked)
       => \A a \in Arch : DispStat(dispstat[a]).vblank = (192 <= vcount /\ vcount < 262)

\* the scanline events in the queue
PendingScanline == PendingOf("Scanline Start") \cup PendingOf("Scanline End")

\* the events that fired in the last step of run_frame for the named
\* callback (indices into fired)
FiredNow(name) ==
    IF last.op = "advance"
    THEN {k \in (last.fired_before + 1)..Len(fired) : infos[fired[k].id + 1] = name}
    ELSE {}

\* C24: scanline events alternate: a scanline start is followed by exactly
\* one scanline end 524 cycles later, a scanline end by exactly one scanline
\* start 1606 cycles later, and between two passes of the scheduler exactly
\* one scanline event is pending.
C24_ScanlinesAlternate ==
    ~panicked
    => /\ Cardinality(PendingScanline) = 1
       /\ \A k \in FiredNow("Scanline Start") :
             Cardinality(PendingAt("Scanline End", fired[k].time + 524)) = 1
       /\ \A k \in FiredNow("Scanline End") :
             Cardinality(PendingAt("Scanline Start", fired[k].time + 1606)) = 1

\* the second scanline start is pending after a start and an end have fired
C24_SecondLinePending ==
    /\ ~panicked
    /\ \E k \in FiredNow("Scanline End") : fired[k].time = 2130
    /\ \E k \in 1..Len(fired) : infos[fired[k].id + 1] = "Scanline Start"
    /\ Cardinality(PendingAt("Scanline Start", 3736)) = 1

\* C25: at every scanline start the hblank flag is set in both DISPSTAT
\* registers, the HBLANK bit is set in IF of each CPU whose DISPSTAT enables
\* the hblank irq, and the callback returns, so that the scanline end is
\* queued.
C25_HblankAtScanlineStart ==
    \A k \in FiredNow("Scanline Start") :
        /\ ~panicked
        /\ \A a \in Arch :
              /\ DispStat(dispstat[a]).hblank
              /\ DispStat(dispstat[a]).hblank_irq => Bit(irq[a].irf, IrqSource.HBlank) = 1
        /\ Cardinality(PendingAt("Scanline End", fired[k].time + 524)) = 1

\* the scanline starts whose callback returns set the hblank flags and
\* queue the scanline end, and they are those with the hblank irq disabled
\* on both CPUs
HblankWithoutIrq ==
    \A k \in FiredNow("Scanline Start") :
        ~panicked
        => /\ \A a \in Arch :
                 DispStat(dispstat[a]).hblank /\ ~DispStat(dispstat[a]).hblank_irq
           /\ Cardinality(PendingAt("Scanline End", fired[k].time + 524)) = 1

\* a scanline start with the hblank irq enabled on a CPU ends in a panic
HblankIrqPanics ==
    \A k \in FiredNow("Scanline Start") :
        (\E a \in Arch : DispStat(dispstat[a]).hblank_irq) => panicked

-----------------------------------------------------------------------------
(* Claims about System::reset, under ResetSpec.                             *)

\* C26: System::reset called in any reachable state gives the state of the
\* first reset: scheduler time 0 with exactly one event queued (the scanline
\* start at 1606), both CPUs in their register state of the first reset,
\* IME, IE and IF clear, the IPC FIFOs empty and the IPC registers at their
\* initial values, nothing left over from before.
C26_ResetRestores ==
    last.op = "reset_again"
    => /\ ~panicked
       /\ current_time = 0
       /\ Len(events) = 1
       /\ PendingAt("Scanline Start", 1606) = {1}
       /\ cpu = FirstReset.cpu
       /\ irq = FirstReset.irq
       /\ ipc = FirstReset.ipc

\* the second reset ends in a panic, before a frame and after one
ResetAgainPanics == last.op = "reset_again" => panicked

-----------------------------------------------------------------------------
(* Claims about masked register writes, under MaskedSpec.                   *)

\* the last step wrote register op
Wrote(op) == last'.op = op

\* an EXMEMCNT write makes the bits inside the mask equal to the value
\* written and leaves the bits outside the mask as they were
ExmemcntTakesValue ==
    Wrote("write_exmemcnt")
    => \A n \in 0..15 :
          Bit(exmemcnt', n) = IF Bit(last'.mask, n) = 1 THEN Bit(last'.val, n)
                              ELSE Bit(exmemcnt, n)

\* an IME write whose mask excludes byte 0 leaves IME as it was, and one
\* whose mask includes byte 0 sets IME to bit 0 of the value
ImeFollowsMask ==
    Wrote("write_ime")
    => irq'[last'.arch].ime = IF last'.mask.lo % 256 = 0 THEN irq[last'.arch].ime
                              ELSE last'.val % 2 = 1

\* an IPCFIFOCNT write whose mask excludes the byte of bit 3 leaves the
\* writer's FIFO as it was, and one whose mask excludes the byte of bit 14
\* leaves the writer's error bit as it was
FifoCntFollowsMask ==
    Wrote("write_ipcfifocnt")
    => /\ Bit(last'.mask, 3) = 0 => ipc'.fifo[last'.arch] = ipc.fifo[last'.arch]
       /\ Bit(last'.mask, 14) = 0
          => IpcFifoCnt(ipc'.ipcfifocnt[last'.arch]).error
             = IpcFifoCnt(ipc.ipcfifocnt[last'.arch]).error

\* C27: every register write with value v and byte mask M leaves the
\* register bits outside M, and the side effects keyed to bits of v outside
\* M, as they were, and gives the writable bits inside M the value of v: an
\* EXMEMCNT write makes the masked bits equal to v, an IME write whose mask
\* excludes byte 0 leaves IME unchanged, and an IPCFIFOCNT write whose mask
\* excludes the byte of bit 3 or of bit 14 neither clears the FIFO nor the
\* error bit.
C27_WritesFollowMask ==
    [][ExmemcntTakesValue /\ ImeFollowsMask /\ FifoCntFollowsMask]_vars

-----------------------------------------------------------------------------
(* Claims about VRAM, under VramSpec.                                       *)

\* the region a CPU reads at an address, and the offset in it
ReadRegion(arch, addr) == IF arch = "ARMv4" THEN "arm7_vram" ELSE RoutedRegion(addr)

RegionOffset(addr) == (addr % 16777216) % 1048576

\* the enabled banks whose VRAMCNT assigns them to the region over the
\* offset
BanksOver(r, offset) ==
    {k \in 0..8 :
        LET cnt == VramCnt(vram.vramcnt[k])
            t == BankTarget(k, cnt.mst, cnt.offset)
        IN  /\ cnt.enable
            /\ t.region = r
            /\ offset >= t.offset
            /\ offset < t.offset + t.length}

\* the word of bank k's buffer that the region's offset stands for
WordOfBank(k, offset) ==
    LET cnt == VramCnt(vram.vramcnt[k])
    IN  BankWord(State, k, offset - BankTarget(k, cnt.mst, cnt.offset).offset)

VramReadDone == last.op = "vram_read"

\* the banks assigned to the address of the last read
BanksRead == BanksOver(ReadRegion(last.arch, last.addr), RegionOffset(last.addr))

\* a read of an address that one bank is assigned to returns the word of
\* that bank's buffer
MappedReadReturnsBank ==
    VramReadDone /\ ~panicked
    => \A k \in 0..8 :
          BanksRead = {k} => last.data = WordOfBank(k, RegionOffset(last.addr))

\* a read of an address that no bank is assigned to returns 0
UnmappedReadReturnsZero ==
    VramReadDone /\ ~panicked /\ BanksRead = {} => last.data = 0

\* C28: after the VRAMCNT write that enables a bank into a region at an
\* offset, a read of the region there returns what the bank's buffer holds
\* at that place; a read of a VRAM address whose page has no bank returns 0
\* and does not fault.
C28_VramReads ==
    /\ MappedReadReturnsBank
    /\ UnmappedReadReturnsZero
    /\ VramReadDone /\ BanksRead = {} => ~panicked

\* a read of an address behind the pages of its region ends in a panic
ReadBehindRegionPanics ==
    VramReadDone /\ get_page(last.addr) >= vram.region[ReadRegion(last.arch, last.addr)].pages
    => panicked

\* a bank's data written through one assignment is read through another
VramDataFollowsBank ==
    /\ VramReadDone
    /\ ~panicked
    /\ last.data # 0
    /\ last.addr = 100794372

-----------------------------------------------------------------------------
(* Claims about the page tables, under PageSpec.                            *)

\* addresses of [base, end): the first, one inside the first page, one
\* inside the second page, the last word
Probes(base, end) ==
    {addr \in {base, base + 4, base + TABLE_PAGE_SIZE + 4, end - 4} :
        addr >= base /\ addr < end}

\* what the lookups of the tables that an operation with these attributes
\* went to return for an address
Lookups(arch, attributes, addr) ==
    (IF attributes \in {"Read", "ReadWrite"} THEN {read_pointer(State, arch, addr)} ELSE {})
    \cup
    (IF attributes \in {"Write", "ReadWrite"} THEN {write_pointer(State, arch, addr)} ELSE {})

\* after unmap(B, E) the lookup of every address of [B, E) returns null
UnmapGivesNull ==
    last.op = "unmap"
    => \A addr \in Probes(last.base, last.end) :
          Lookups(last.arch, last.attributes, addr) = {NullPtr}

\* C29 as stated: after map(B, E, p, m) the lookup of every address A of
\* [B, E) returns p + (A & m) + (A & page_mask), and after unmap(B, E) the
\* lookup of every address of [B, E) returns null.
C29_LookupAddsBoth ==
    /\ last.op = "map"
       => \A addr \in Probes(last.base, last.end) :
             Lookups(last.arch, last.attributes, addr)
             = {PtrAdd(last.ptr, AddrAnd(addr, last.mask) + (addr % TABLE_PAGE_SIZE))}
    /\ UnmapGivesNull

\* C29: after map(B, E, p, m) the lookup of every address A of [B, E)
\* returns p + (P & m) + (A & page_mask), where P is the start of A's page
\* (A with the bits of page_mask cleared); after unmap(B, E) the lookup of
\* every address of [B, E) returns null.
C29_LookupAfterMap ==
    /\ last.op = "map"
       => \A addr \in Probes(last.base, last.end) :
             Lookups(last.arch, last.attributes, addr)
             = {PtrAdd(last.ptr, AddrAnd(addr - (addr % TABLE_PAGE_SIZE), last.mask)
                                 + (addr % TABLE_PAGE_SIZE))}
    /\ UnmapGivesNull

\* with the masks of the memory routers, which cover the page mask, that
\* is p + (A & m)
LookupIsMasked ==
    last.op = "map"
    => \A addr \in Probes(last.base, last.end) :
          Lookups(last.arch, last.attributes, addr)
          = {PtrAdd(last.ptr, AddrAnd(addr, last.mask))}

\* a mapping whose mask reaches beyond a page was made, and the lookup in
\* its second page returns the pointer moved by the page and the rest
C29_SecondPageMapped ==
    /\ last.op = "map"
    /\ last.mask > TABLE_PAGE_SIZE
    /\ read_pointer(State, last.arch, last.base + TABLE_PAGE_SIZE + 4)
       = PtrAdd(last.ptr, TABLE_PAGE_SIZE + 4)

-----------------------------------------------------------------------------
(* Claims about the cartridge, under CartSpec.                              *)

\* the last step read the last word of a transfer, with the transfer-ready
\* irq enabled
LastWordRead ==
    /\ last.op = "read_data"
    /\ RomCtrl(last.before.cartridge.romctrl).word_ready
    /\ last.before.cartridge.transfer_count + 4 = last.before.cartridge.transfer_size
    /\ AuxSpiCnt(last.before.cartridge.auxspicnt).transfer_ready_irq
    /\ ~panicked

\* the CPU that bit 11 of EXMEMCNT gives the cartridge slot to
SlotOwner == IF Bit(exmemcnt, 11) = 1 THEN "ARMv4" ELSE "ARMv5"

\* C30: when the last word of a cartridge transfer is read with the
\* transfer-ready irq enabled, word_ready becomes 0 and the cartridge
\* transfer interrupt is raised on the CPU that the slot owner bit of
\* EXMEMCNT selects, and not on the other CPU.
C30_TransferIrqToOwner ==
    LastWordRead
    => /\ ~RomCtrl(cartridge.romctrl).word_ready
       /\ Bit(irq[SlotOwner].irf, IrqSource.CartridgeTransfer) = 1
       /\ irq[Not(SlotOwner)].irf = last.before.irf[Not(SlotOwner)]

\* the read of the last word clears word_ready and block_start and raises
\* the interrupt on both CPUs
TransferIrqToBoth ==
    LastWordRead
    => /\ ~RomCtrl(cartridge.romctrl).word_ready
       /\ ~RomCtrl(cartridge.romctrl).block_start
       /\ \A a \in Arch : Bit(irq[a].irf, IrqSource.CartridgeTransfer) = 1

\* the last word of a transfer was read with each CPU as the slot's owner
LastWordReadByOwner(a) == LastWordRead /\ SlotOwner = a

-----------------------------------------------------------------------------
(* The ARM9 writes the registers of the divider, a word at a time.         *)

\* the modes 32/32, 64/32, 64/64, and the mode 3
DivCntWrites == 0..3

\* mmio_write of DIVCNT, by a word (MASK as u16 is 0xffff)
MathWriteDivCnt(val) ==
    /\ ~panicked
    /\ Becomes(write_divcnt(State, val, 65535))
    /\ last' = [op |-> "write_divcnt"]
    /\ UNCHANGED <<pc, frame_end, cycles, program>>

\* the word w written to the low word (val as u64, MASK as u64) and to the
\* high word (val << 32, MASK << 32) of a 64-bit register
LowWord(w) == [val |-> <<w[1], w[2], 0, 0>>, mask |-> <<65535, 65535, 0, 0>>]

HighWord(w) == [val |-> <<0, 0, w[1], w[2]>>, mask |-> <<0, 0, 65535, 65535>>]

\* the low words 0, 5 and 0xfffffffb (-5) and the high words 0, 0x80000000
\* and 0xffffffff of the numerator
NumerWords == {<<0, 0>>, <<5, 0>>, <<65531, 65535>>}

NumerHighWords == {<<0, 0>>, <<0, 32768>>, <<65535, 65535>>}

\* the low words 0, 2 and 0xffffffff (-1) and the high words 0 and
\* 0xffffffff of the denominator
DenomWords == {<<0, 0>>, <<2, 0>>, <<65535, 65535>>}

DenomHighWords == {<<0, 0>>, <<65535, 65535>>}

\* mmio_write of DIV_NUMER and of DIV_NUMER2
MathWriteNumer(w) ==
    /\ ~panicked
    /\ Becomes(write_div_numer(State, w.val, w.mask))
    /\ last' = [op |-> "write_div_numer"]
    /\ UNCHANGED <<pc, frame_end, cycles, program>>

\* mmio_write of DIV_DENOM and of DIV_DENOM2
MathWriteDenom(w) ==
    /\ ~panicked
    /\ Becomes(write_div_denom(State, w.val, w.mask))
    /\ last' = [op |-> "write_div_denom"]
    /\ UNCHANGED <<pc, frame_end, cycles, program>>

MathNext ==
    \/ \E val \in DivCntWrites : MathWriteDivCnt(val)
    \/ \E w \in NumerWords : MathWriteNumer(LowWord(w))
    \/ \E w \in NumerHighWords : MathWriteNumer(HighWord(w))
    \/ \E w \in DenomWords : MathWriteDenom(LowWord(w))
    \/ \E w \in DenomHighWords : MathWriteDenom(HighWord(w))

MathSpec == IpcInit({"none"}) /\ [][MathNext]_vars

C31_Case ==
    /\ math_unit.divcnt % 4 = 1
    /\ math_unit.div_numer = U64(5)
    /\ math_unit.div_denom = U64(0)
    /\ ~panicked

\* C31 (as stated): in mode 1 with numerator 5 and denominator 0 the result
\* register reads 0xFFFFFFFFFFFFFFFB, the remainder register 5, and bit 14 of
\* DIVCNT is set.
C31_DivideByZero ==
    C31_Case => /\ math_unit.div_result = <<65531, 65535, 65535, 65535>>
                /\ math_unit.divrem_result = U64(5)
                /\ Bit(math_unit.divcnt, 14) = 1

\* C31 (amended): in mode 1 with numerator 5 and denominator 0 the result
\* register reads 0xFFFFFFFFFFFFFFFF (minus the sign of the numerator), the
\* remainder register 5, and bit 14 of DIVCNT is set.
C31_DivideByZeroSign ==
    C31_Case => /\ math_unit.div_result = AllOnes
                /\ math_unit.divrem_result = U64(5)
                /\ Bit(math_unit.divcnt, 14) = 1

C31_Divided == C31_Case /\ last.op \in {"write_divcnt", "write_div_numer", "write_div_denom"}

-----------------------------------------------------------------------------
(* Both CPUs write their line compare setting to DISPSTAT, and the scanline *)
(* end callback renders line after line.                                   *)

\* the halfwords written to DISPSTAT: line 1 with the lyc irq (0x0120),
\* bit 7 with the lyc irq (0x00a0) and bit 7 with the setting 3 (0x0380)
LycWrites == {288, 160, 896}

LycWriteDispstat(arch, val) ==
    /\ ~panicked
    /\ io.writes < MaxLycWrites
    /\ Becomes([write_dispstat(State, arch, val, MASK_LOW) EXCEPT !.io.writes = @ + 1])
    /\ last' = [op |-> "write_dispstat", arch |-> arch, val |-> val]
    /\ UNCHANGED <<pc, frame_end, cycles, program>>

\* the rendering of the scanline end callback
LycScanlineEnd ==
    /\ ~panicked
    /\ Becomes(render_scanline_end(State))
    /\ last' = [op |-> "scanline_end", before |-> [a \in Arch |-> irq[a].irf]]
    /\ UNCHANGED <<pc, frame_end, cycles, program>>

LycNext ==
    \/ \E arch \in Arch, val \in LycWrites : LycWriteDispstat(arch, val)
    \/ LycScanlineEnd

LycSpec == IpcInit({"none"}) /\ [][LycNext]_vars

\* the 9-bit line compare setting: bits 8-15 of DISPSTAT are its low eight
\* bits and bit 7 is its bit 8
LineCompare(d) == Field(d, 8, 15) + 256 * Bit(d, 7)

AfterScanlineEnd == last.op = "scanline_end" /\ ~panicked

\* the VCOUNTER interrupt was raised on the CPU by the last scanline end, as
\* far as IF shows it: its bit is set, and it was clear before
VCounterRaised(arch) ==
    /\ Bit(irq[arch].irf, IrqSource.VCounter) = 1
    /\ Bit(last.before[arch], IrqSource.VCounter) = 0

VCounterPending(arch) == Bit(irq[arch].irf, IrqSource.VCounter) = 1

\* C32: after every scanline end the lyc flag of each CPU is set exactly
\* when vcount equals the 9-bit line compare setting of that CPU, and the
\* VCOUNTER interrupt is raised on that CPU exactly when they match and its
\* lyc irq enable bit is set.
C32_LycFollowsSetting ==
    AfterScanlineEnd
    => \A a \in Arch :
         LET match == vcount = LineCompare(dispstat[a])
         IN  /\ DispStat(dispstat[a]).lyc = match
             /\ (match /\ DispStat(dispstat[a]).lyc_irq) => VCounterPending(a)
             /\ VCounterRaised(a) => (match /\ DispStat(dispstat[a]).lyc_irq)

\* what the code does instead: bit 7 is taken as bit 1 of the line
LycFollowsCode ==
    AfterScanlineEnd
    => \A a \in Arch :
         LET match == vcount = lyc_line(dispstat[a])
         IN  /\ DispStat(dispstat[a]).lyc = match
             /\ (match /\ DispStat(dispstat[a]).lyc_irq) => VCounterPending(a)
             /\ VCounterRaised(a) => (match /\ DispStat(dispstat[a]).lyc_irq)

\* with bit 7 clear the two agree
LycWithoutMsb ==
    AfterScanlineEnd
    => \A a \in Arch :
         Bit(dispstat[a], 7) = 0
         => LET match == vcount = LineCompare(dispstat[a])
            IN  /\ DispStat(dispstat[a]).lyc = match
                /\ (match /\ DispStat(dispstat[a]).lyc_irq) => VCounterPending(a)
                /\ VCounterRaised(a) => (match /\ DispStat(dispstat[a]).lyc_irq)

\* line 256 with the setting 256 on the ARM7, and a line that matches
LycLine256 == AfterScanlineEnd /\ vcount = 256 /\ LineCompare(dispstat["ARMv4"]) = 256

LycMatch == AfterScanlineEnd /\ VCounterRaised("ARMv5") /\ vcount = 1

-----------------------------------------------------------------------------
(* The page lists of the VRAM regions, under VramSpec.                     *)

\* the banks a page of a region lists, in the order of the list
ListedBanks(r, index) ==
    LET banks == PageBanks(vram.region[r], index)
    IN  [i \in 1..Len(banks) |-> banks[i].bank]

\* the page lists exactly the enabled banks assigned to it, each once
PageListsAssigned(r, index) ==
    LET listed == ListedBanks(r, index)
    IN  /\ {listed[i] : i \in DOMAIN listed} = BanksOver(r, index * PAGE_SIZE)
        /\ \A i, j \in DOMAIN listed : listed[i] = listed[j] => i = j

VramCntWritten == last.op = "write_vramcnt" /\ ~panicked

ObjectPalettes == {"obja_extended_palette", "objb_extended_palette"}

\* C33: after any VRAMCNT write each page of every region, the extended
\* palettes of the objects included, lists exactly the banks that are enabled
\* and assigned to that page: no bank of an earlier assignment remains and no
\* bank is listed twice.
C33_PagesListAssignedBanks ==
    VramCntWritten
    => \A r \in Regions : \A index \in 0..(vram.region[r].pages - 1) :
          PageListsAssigned(r, index)

\* the same without the extended palettes of the objects
OtherPagesListAssignedBanks ==
    VramCntWritten
    => \A r \in Regions \ ObjectPalettes : \A index \in 0..(vram.region[r].pages - 1) :
          PageListsAssigned(r, index)

\* a bank that left the extended palette of the objects is still listed
\* there, and a bank that stays is listed twice
StaleObjectPalette ==
    /\ VramCntWritten
    /\ BanksOver("obja_extended_palette", 0) = {}
    /\ Len(ListedBanks("obja_extended_palette", 0)) = 1

DoubleObjectPalette ==
    /\ VramCntWritten
    /\ BanksOver("obja_extended_palette", 0) = {5}
    /\ ListedBanks("obja_extended_palette", 0) = <<5, 5>>

-----------------------------------------------------------------------------
(* Whole frames, under ResetSpec. No program of ResetSpec writes VCOUNT.    *)

\* the events of the named callback that fired since run_frame was called
FiredInFrame(name) ==
    {k \in (io.entered.fired + 1)..Len(fired) : infos[fired[k].id + 1] = name}

\* run_frame has just returned
FrameReturned == pc = "out" /\ last.op = "query"

\* run_frame returns with the time 560190 cycles on, 263 scanline starts and
\* 263 scanline ends fired, and vcount as it was at the call
FrameIsWhole ==
    FrameReturned
    => /\ current_time = io.entered.time + 560190
       /\ Cardinality(FiredInFrame("Scanline Start")) = 263
       /\ Cardinality(FiredInFrame("Scanline End")) = 263
       /\ vcount = io.entered.vcount

\* every pass of the loop of run_frame advances the time
FrameAdvances == (pc \in {"arm9", "arm7"} /\ ~panicked) => cycles >= 1

\* C34: from reset, without a guest write to VCOUNT, every call of run_frame
\* terminates (it does not abort, and every pass of its loop advances the
\* time) having advanced the scheduler's time by exactly 560190 cycles and
\* fired exactly 263 scanline starts and 263 scanline ends, with vcount as it
\* was before the call.
C34_FrameIsWhole ==
    /\ pc # "out" => ~panicked
    /\ FrameAdvances
    /\ FrameIsWhole

\* the guest has enabled the hblank irq in a DISPSTAT register
HblankIrqEnabled == \E a \in Arch : DispStat(dispstat[a]).hblank_irq

\* run_frame aborts only after the guest enabled the hblank irq
FrameAbortsOnHblankIrq == (pc # "out" /\ panicked) => HblankIrqEnabled

\* the second frame has returned, and a frame has returned with the ARM9
\* running
SecondFrameReturned == FrameReturned /\ io.entered.time = 560190

AwakeFrameReturned == FrameReturned /\ ~cpu["ARMv5"].halted

-----------------------------------------------------------------------------
(* R8-R12 across mode switches, under ModeSpec.                            *)

InFiq == bank(cpu[Running].state.cpsr.mode) = "FIQ"

\* C35: R8-R12 are shared by all modes other than FIQ: after any sequence of
\* mode switches, sequences through FIQ included, the R8-R12 that are live in
\* a mode other than FIQ are the values last written to R8-R12 in a mode
\* other than FIQ.
C35_SharedRegisters ==
    ~InFiq => \A r \in 8..12 : cpu[Running].state.gpr[r] = io.shared[r]

\* a switch between two modes other than FIQ leaves the live R8-R12
NonFiqSwitchKeeps ==
    [][(last'.op = "switch_mode" /\ ~InFiq /\ ~InFiq')
       => \A r \in 8..12 : cpu'[Running].state.gpr[r] = cpu[Running].state.gpr[r]]_vars

\* from a mode other than FIQ through FIQ back to a mode of the same bank:
\* R8-R12 are as before
ThroughFiqSameBank ==
    (/\ last.op = "switch_mode"
     /\ last.start # last.before
     /\ bank(last.before.cpsr.mode) = "FIQ"
     /\ bank(last.start.cpsr.mode) = bank(cpu[Running].state.cpsr.mode))
    => \A r \in 8..12 : cpu[Running].state.gpr[r] = last.start.gpr[r]

\* FIQ was left for a mode of another bank than the one it was entered from
ThroughFiqOtherBank ==
    /\ last.op = "switch_mode"
    /\ last.start # last.before
    /\ bank(last.before.cpsr.mode) = "FIQ"
    /\ bank(last.start.cpsr.mode) # "FIQ"
    /\ ~InFiq
    /\ bank(last.start.cpsr.mode) # bank(cpu[Running].state.cpsr.mode)

-----------------------------------------------------------------------------
(* Halt requests and interrupts: both CPUs write IME, IE and IF, the        *)
(* hardware raises the VBlank and the Timer0 source, and the CPUs ask for   *)
(* the halt (HALTCNT on the ARM7, the CP15 wait for interrupt on the ARM9). *)

HaltOp(s, record) ==
    /\ ~panicked
    /\ Becomes(s)
    /\ last' = record
    /\ UNCHANGED <<pc, frame_end, cycles, program>>

HaltWriteIme(arch, val) ==
    HaltOp(write_ime(State, arch, val, MASK_WORD), [op |-> "write_ime", arch |-> arch])

\* IE written with 0 and with the VBlank bit
HaltWriteIe(arch, val) ==
    HaltOp(write_ie(State, arch, val, MASK_WORD), [op |-> "write_ie", arch |-> arch])

\* IF acknowledged for both sources
HaltWriteIf(arch) ==
    HaltOp(write_irf(State, arch, 9, MASK_WORD), [op |-> "write_irf", arch |-> arch])

HaltSources == {IrqSource.VBlank, IrqSource.Timer0}

HaltRaise(arch, source) ==
    HaltOp(raise(State, arch, source), [op |-> "raise", arch |-> arch, source |-> source])

\* the byte 0x80 written to HALTCNT by the ARM7; the write of CP15 register
\* c7, c0, 4 by the ARM9
HaltRequest(arch) ==
    HaltOp(IF arch = "ARMv4" THEN write_haltcnt(State, 128)
           ELSE cp15_wait_for_interrupt(State),
           [op |-> "halt", arch |-> arch])

HaltNext ==
    \/ \E arch \in Arch, val \in 0..1 : HaltWriteIme(arch, val)
    \/ \E arch \in Arch, val \in 0..1 : HaltWriteIe(arch, val)
    \/ \E arch \in Arch : HaltWriteIf(arch)
    \/ \E arch \in Arch, source \in HaltSources : HaltRaise(arch, source)
    \/ \E arch \in Arch : HaltRequest(arch)

HaltSpec == IpcInit({"none"}) /\ [][HaltNext]_vars

\* an interrupt that would wake the CPU is pending
WakePending(arch) ==
    /\ BitAnd(irq[arch].ie, irq[arch].irf) # 0
    /\ arch = "ARMv5" => irq[arch].ime

\* a raise of the source would wake the CPU
WakeSource(arch, source) ==
    /\ Bit(irq[arch].ie, source) = 1
    /\ arch = "ARMv5" => irq[arch].ime

\* a halt request made while a waking interrupt is pending does not leave the
\* CPU halted
HaltSeesPending ==
    \A a \in Arch :
        (last'.op = "halt" /\ last'.arch = a /\ WakePending(a)) => ~cpu'[a].halted

\* a raise of an enabled source resumes the CPU
RaiseResumes ==
    \A a \in Arch :
        (last'.op = "raise" /\ last'.arch = a /\ WakeSource(a, last'.source))
        => ~cpu'[a].halted

\* C36: a CPU is never left halted while an interrupt that would wake it is
\* pending: a halt request made while IE & IF # 0 (and, on the ARM9, IME is
\* set) does not leave the CPU halted, and one raise of an enabled source
\* resumes a halted CPU.
C36_NoHaltWhilePending == [][HaltSeesPending /\ RaiseResumes]_vars

\* the second part alone
C36_RaiseResumes == [][RaiseResumes]_vars

\* what the code does: every halt request leaves the CPU halted
HaltAlwaysHalts ==
    [][\A a \in Arch : (last'.op = "halt" /\ last'.arch = a) => cpu'[a].halted]_vars

\* a CPU halted by a request made while a waking interrupt was pending
HaltedWhilePending(arch) ==
    last.op = "halt" /\ last.arch = arch /\ cpu[arch].halted /\ WakePending(arch)

-----------------------------------------------------------------------------
(* The timers, under TimerSpec: after reset the guest writes the reload and *)
(* control halfwords of TMxCNT, and run_frame advances the scheduler to the *)
(* next event, as it does while the ARM9 is halted.                        *)

MaxTimerOps == 4

MaxTimerTime == 2200

TimerChannels == {<<"ARMv5", 0>>, <<"ARMv5", 1>>}

\* stopped; started; started counting up
TimerControlWrites == {0, 128, 132}

\* channel 0 overflows after 536 cycles, the channels behind it after one
\* count
TimerReloadWrite(ch) == IF ch[2] = 0 THEN 65000 ELSE 65535

TimerOp(s, record) ==
    /\ ~panicked
    /\ io.writes < MaxTimerOps
    /\ Becomes([s EXCEPT !.io.writes = @ + 1])
    /\ last' = record
    /\ UNCHANGED <<pc, frame_end, cycles, program>>

TimerWriteReload(ch) ==
    TimerOp(timer_write_length(State, ch[1], ch[2], TimerReloadWrite(ch), MASK_LOW),
            [op |-> "reload", arch |-> ch[1], id |-> ch[2]])

TimerWriteControl(ch, val) ==
    TimerOp(timer_write_control(State, ch[1], ch[2], val, 65535),
            [op |-> "control", arch |-> ch[1], id |-> ch[2]])

\* scheduler.tick(get_event_time()); scheduler.run()
TimerAdvance(uaf) ==
    /\ ~panicked
    /\ Len(events) > 0
    /\ events[1].time <= MaxTimerTime
    /\ Becomes(run(tick(State, events[1].time - current_time), uaf))
    /\ last' = [op |-> "advance", fired_before |-> Len(fired)]
    /\ UNCHANGED <<pc, frame_end, cycles, program>>

TimerNext ==
    \/ \E ch \in TimerChannels : TimerWriteReload(ch)
    \/ \E ch \in TimerChannels, val \in TimerControlWrites : TimerWriteControl(ch, val)
    \/ \E uaf \in UafOutcomes : TimerAdvance(uaf)

TimerSpec == IpcInit({"none"}) /\ [][TimerNext]_vars

\* the pending overflow events of a channel
PendingOverflow(arch, id) == PendingOf(TimerEventNames[arch][id + 1])

\* a channel that runs on the clock: started, and not counting up behind
\* another channel
RunsOnClock(arch, id) ==
    /\ TimerControl(timer[arch][id].control).start
    /\ id = 0 \/ ~TimerControl(timer[arch][id].control).count_up

\* C37: between scheduler passes a timer channel is marked active exactly
\* when exactly one overflow event for it is pending; a channel with start
\* clear, or a count-up channel other than channel 0, has no pending overflow
\* event; no sequence of control writes leaves two overflow events pending
\* for one channel.
C37_ActiveIffOnePending ==
    ~panicked =>
        \A a \in Arch, id \in 0..3 :
            /\ timer[a][id].active <=> Cardinality(PendingOverflow(a, id)) = 1
            /\ ~RunsOnClock(a, id) => PendingOverflow(a, id) = {}
            /\ Cardinality(PendingOverflow(a, id)) <= 1

\* a running channel whose overflow event fired in the last pass is active
\* with its next overflow event pending
OverflowRearmed ==
    /\ ~panicked
    /\ last.op = "advance"
    /\ \E k \in (last.fired_before + 1)..Len(fired) :
           infos[fired[k].id + 1] = TimerEventNames["ARMv5"][1]
    /\ timer["ARMv5"][0].active
    /\ Cardinality(PendingOverflow("ARMv5", 0)) = 1

\* the overflow of channel 0 ran through channel 1, which counts up behind it
\* and has no overflow event of its own
OverflowChained ==
    /\ ~panicked
    /\ last.op = "advance"
    /\ \E k \in (last.fired_before + 1)..Len(fired) :
           infos[fired[k].id + 1] = TimerEventNames["ARMv5"][1]
    /\ TimerControl(timer["ARMv5"][1].control).count_up
    /\ TimerControl(timer["ARMv5"][1].control).start
    /\ timer["ARMv5"][1].counter = timer["ARMv5"][1].reload_value
    /\ timer["ARMv5"][1].reload_value = 65535

\* a channel stopped by a control write while its overflow event was pending
StoppedWhilePending ==
    /\ ~panicked
    /\ last.op = "control"
    /\ ~timer[last.arch][last.id].active
    /\ \E e \in queued : e.seq \in cancelled
                         /\ infos[e.id + 1] = TimerEventNames[last.arch][last.id + 1]

-----------------------------------------------------------------------------
(* Register writes that end the emulator, under MmioSpec: after reset the  *)
(* guest writes HALTCNT, VRAMCNT, DIVCNT and the control halfword of       *)
(* DMAxCNT, in any order.                                                  *)

MaxMmioOps == 3

\* bits 6-7 of HALTCNT: 0, 1 (GBA mode), 2 (halt), 3 (sleep)
HaltcntWrites == {0, 64, 128, 192}

\* bank A to LCDC and disabled; bank C with mst 5; bank H with mst 3
MmioVramCntWrites == {<<0, 128>>, <<0, 0>>, <<2, 133>>, <<7, 131>>}

\* disabled; enabled at vblank (ARM9 timing 1); enabled with timing 7
\* (GXFIFO); enabled, immediate
DmaControlWrites == {0, 34816, 47104, 32768}

MmioOp(s, record) ==
    /\ ~panicked
    /\ io.writes < MaxMmioOps
    /\ Becomes([s EXCEPT !.io.writes = @ + 1])
    /\ last' = record
    /\ UNCHANGED <<pc, frame_end, cycles, program>>

MmioWriteHaltcnt(val) ==
    MmioOp(write_haltcnt(State, val), [op |-> "HALTCNT", val |-> val, id |-> 0])

MmioWriteVramcnt(index, val) ==
    MmioOp(write_vramcnt(State, index, val), [op |-> "VRAMCNT", val |-> val, id |-> index])

MmioWriteDivcnt(val) ==
    MmioOp(write_divcnt(State, val, 65535), [op |-> "DIVCNT", val |-> val, id |-> 0])

MmioWriteDmaControl(arch, id, val) ==
    MmioOp(dma_write_control(State, arch, id, val, 65535),
           [op |-> "DMACNT", val |-> val, id |-> id,
            enabled |-> DmaControl(dma[arch][id].control).enable])

MmioNext ==
    \/ \E val \in HaltcntWrites : MmioWriteHaltcnt(val)
    \/ \E w \in MmioVramCntWrites : MmioWriteVramcnt(w[1], w[2])
    \/ \E val \in DivCntWrites : MmioWriteDivcnt(val)
    \/ \E arch \in Arch, val \in DmaControlWrites : MmioWriteDmaControl(arch, 0, val)

MmioSpec == IpcInit({"none"}) /\ [][MmioNext]_vars

\* C38: no value written by the guest to a mapped register aborts the
\* emulator: every write to HALTCNT, to a VRAMCNT register, to DIVCNT and to
\* a DMA control register returns.
C38_RegisterWritesReturn == ~panicked

\* the last write was of a value the handler has no arm for: HALTCNT with
\* bits 6-7 other than 2, a bank enabled with an mst its match does not
\* list, division mode 3, DMA enabled with timing 7; or it started an
\* immediate DMA, whose add_event aborts on the scheduler's binary search
NoArmForValue ==
    \/ last.op = "HALTCNT" /\ last.val # 128
    \/ last.op = "VRAMCNT" /\ <<last.id, last.val>> \in {<<2, 133>>, <<7, 131>>}
    \/ last.op = "DIVCNT" /\ last.val = 3
    \/ last.op = "DMACNT" /\ last.val = 47104
    \/ last.op = "DMACNT" /\ last.val = 32768 /\ ~last.enabled

\* what the code does: a write aborts if and only if it is one of those
AbortsWithoutArm == (last.op # "reset" /\ NoArmForValue) <=> panicked

HaltcntAborted == panicked /\ last.op = "HALTCNT" /\ last.val = 0

VramcntAborted == panicked /\ last.op = "VRAMCNT"

DivcntAborted == panicked /\ last.op = "DIVCNT"

DmaControlAborted == panicked /\ last.op = "DMACNT" /\ last.val = 47104

-----------------------------------------------------------------------------
(* The IPCSYNC handshake, under SyncSpec: after reset the two CPUs write    *)
(* IPCSYNC as a halfword and as a byte, and clear the IPCSYNC bit of IF.    *)

MaxSyncOps == 4

\* output 0xA with the send irq; the receive irq enabled; output 5; the
\* byte 0 written to the low byte
SyncAccesses == {HalfAccess(10752), HalfAccess(16384), HalfAccess(1280), ByteAccess(0, 0)}

SyncOp(s, record) ==
    /\ ~panicked
    /\ io.writes < MaxSyncOps
    /\ Becomes([s EXCEPT !.io.writes = @ + 1])
    /\ last' = record
    /\ UNCHANGED <<pc, frame_end, cycles, program>>

\* mmio_write of IPCSYNC; before is the IF of the other CPU
SyncWrite(arch, w) ==
    SyncOp(write_ipcsync(State, arch, w.val, w.mask),
           [op |-> "write_ipcsync", arch |-> arch, val |-> w.val, mask |-> w.mask,
            before |-> irq[Not(arch)].irf])

\* the IPCSYNC bit written to IF
SyncClearIf(arch) ==
    SyncOp(write_irf(State, arch, 65536, MASK_WORD),
           [op |-> "write_irf", arch |-> arch])

SyncNext ==
    \/ \E arch \in Arch, w \in SyncAccesses : SyncWrite(arch, w)
    \/ \E arch \in Arch : SyncClearIf(arch)

SyncSpec == IpcInit({"none"}) /\ [][SyncNext]_vars

\* the last IPCSYNC write raised the IPCSYNC interrupt on the other CPU
SyncRaised ==
    /\ last.op = "write_ipcsync"
    /\ Bit(last.before, IrqSource.IPCSync) = 0
    /\ Bit(irq[Not(last.arch)].irf, IrqSource.IPCSync) = 1

\* the last IPCSYNC write wrote 1 to bit 13 within its mask
WroteSendIrq == Bit(BitAnd(last.val, last.mask), 13) = 1

\* C39: the send-irq bit of IPCSYNC is a pulse: an IPCSYNC write raises the
\* IPCSYNC interrupt on the other CPU only if that write itself writes 1 to
\* bit 13 within its mask; a later write that does not write 1 to bit 13
\* raises no interrupt.
C39_SendIrqIsPulse == SyncRaised => WroteSendIrq

\* what the code does: the bit is stored, and a write raises the interrupt
\* when the bit stored after it is set and the other CPU has its irq enabled
SendIrqIsStored ==
    last.op = "write_ipcsync"
    => (Bit(irq[Not(last.arch)].irf, IrqSource.IPCSync) = 1
        <=> \/ Bit(last.before, IrqSource.IPCSync) = 1
            \/ /\ IpcSync(ipc.ipcsync[last.arch]).send_irq
               /\ IpcSync(ipc.ipcsync[Not(last.arch)]).enable_irq)

\* a write that covers bit 13 raises only when it writes 1 to it
CoveringWriteIsPulse == (SyncRaised /\ Bit(last.mask, 13) = 1) => WroteSendIrq

\* a byte write to the low byte raised the interrupt again
LowByteRaised == SyncRaised /\ last.mask = 255

\* a halfword write with the send irq raised the interrupt
SendIrqRaised == SyncRaised /\ WroteSendIrq

-----------------------------------------------------------------------------
(* The receive-FIFO-not-empty interrupt, under IrqSpec.                     *)

\* the step sets the IPCReceiveNonEmpty bit of a CPU's IF
ReceiveIrqRises(arch) ==
    /\ Bit(irq[arch].irf, IrqSource.IPCReceiveNonEmpty) = 0
    /\ Bit(irq'[arch].irf, IrqSource.IPCReceiveNonEmpty) = 1

\* C40: the receive-FIFO-not-empty interrupt is raised on a CPU only when
\* the FIFO that CPU receives from is non-empty: on a send into its empty
\* incoming FIFO, or when it newly enables the interrupt while that FIFO
\* holds data.
C40_ReceiveIrqOnData ==
    [][\A a \in Arch : ReceiveIrqRises(a) => ~is_empty(ipc'.fifo[Not(a)])]_vars

\* the send path alone: a send raises the interrupt on the other CPU only
\* into its empty incoming FIFO, which then holds one word
SendRaisesOnFirstWord ==
    [][\A a \in Arch : (ReceiveIrqRises(a) /\ last'.op = "write_ipcfifosend")
                       => /\ last'.arch = Not(a)
                          /\ is_empty(ipc.fifo[Not(a)])
                          /\ ipc'.fifo[Not(a)].items = 1]_vars

\* what the code does on an IPCFIFOCNT write: it raises the interrupt when
\* the CPU newly enables it while its incoming FIFO is empty
EnableRaisesOnEmpty ==
    [][\A a \in Arch : (ReceiveIrqRises(a) /\ last'.op = "write_ipcfifocnt")
                       => /\ last'.arch = a
                          /\ ~IpcFifoCnt(ipc.ipcfifocnt[a]).receive_fifo_empty_irq
                          /\ is_empty(ipc'.fifo[Not(a)])]_vars

\* a CPU that newly enables the interrupt while its incoming FIFO holds data
\* gets no interrupt
EnableOnDataIsSilent ==
    [][\A a \in Arch : (/\ last'.op = "write_ipcfifocnt"
                        /\ last'.arch = a
                        /\ ~IpcFifoCnt(ipc.ipcfifocnt[a]).receive_fifo_empty_irq
                        /\ IpcFifoCnt(ipc'.ipcfifocnt[a]).receive_fifo_empty_irq
                        /\ ~is_empty(ipc'.fifo[Not(a)]))
                       => ~ReceiveIrqRises(a)]_vars

\* the interrupt raised by an IPCFIFOCNT write on a CPU whose incoming FIFO
\* is empty
ReceiveIrqOnEmpty ==
    /\ last.op = "write_ipcfifocnt"
    /\ Bit(last.before, IrqSource.IPCReceiveNonEmpty) = 0
    /\ Bit(irq[last.arch].irf, IrqSource.IPCReceiveNonEmpty) = 1
    /\ is_empty(ipc.fifo[Not(last.arch)])

\* the interrupt enabled by a CPU whose incoming FIFO holds data
EnabledOnData ==
    /\ last.op = "write_ipcfifocnt"
    /\ IpcFifoCnt(ipc.ipcfifocnt[last.arch]).receive_fifo_empty_irq
    /\ Bit(irq[last.arch].irf, IrqSource.IPCReceiveNonEmpty) = 0
    /\ ~is_empty(ipc.fifo[Not(last.arch)])

=============================================================================
